---------------------------- MODULE Spec2Model ----------------------------
(***************************************************************************)
(* Multi-factor stock scoring engine (evaluate_stocks.py, market_intel.py) *)
(*                                                                         *)
(* Numbers are integers.  Where the program compares a float against a     *)
(* decimal threshold the model keeps the value in a fixed unit:            *)
(*   ATR_PCT, VOL_RATIO, peTTM, pbMRQ, psTTM, news weight : tenths         *)
(*   pctChg, turn                                         : tenths of 1%   *)
(*   main_net                                             : 10,000 yuan    *)
(* A ratio of two sums (a mean, a return) is compared by cross             *)
(* multiplication, so no rounding is introduced.                           *)
(* A signal string is modelled by the name of the rule that appended it;   *)
(* the number formatted into it is left out.                               *)
(***************************************************************************)
EXTENDS Integers, Sequences, FiniteSets, TLC

\* NaN / None of a cell: a value outside every domain used below.
NA == -999999

notna(v) == v # NA

MIN_ROWS == 60

Max2(a, b) == IF a >= b THEN a ELSE b

Min2(a, b) == IF a <= b THEN a ELSE b

\* max(lo, min(hi, score))
Clamp(lo, hi, score) == Max2(lo, Min2(hi, score))

\* One rule of a scorer: the points it adds and the signal it appends.
Fire(pts, sig) == [pts |-> pts, sigs |-> <<sig>>]

\* A rule that adds points without a signal (score += 0 in the code).
Quiet(pts) == [pts |-> pts, sigs |-> <<>>]

Skip == [pts |-> 0, sigs |-> <<>>]

RECURSIVE SumPts(_)
SumPts(rules) ==
    IF rules = <<>> THEN 0 ELSE Head(rules).pts + SumPts(Tail(rules))

RECURSIVE CatSigs(_)
CatSigs(rules) ==
    IF rules = <<>> THEN <<>> ELSE Head(rules).sigs \o CatSigs(Tail(rules))

Scored(score, signals) == [score |-> score, signals |-> signals]

Neutral == Scored(0, <<>>)

(***************************************************************************)
(* score_technical: the rules read the latest and the previous row of the  *)
(* indicator frame.                                                        *)
(***************************************************************************)
TechMA(latest, prev) ==
    IF \A c \in {"MA5", "MA10", "MA20", "MA60"} : notna(latest[c])
    THEN IF latest.MA5 > latest.MA10 /\ latest.MA10 > latest.MA20
            /\ latest.MA20 > latest.MA60
         THEN Fire(8, "ma_bull")
         ELSE IF latest.MA5 < latest.MA10 /\ latest.MA10 < latest.MA20
                 /\ latest.MA20 < latest.MA60
         THEN Fire(-8, "ma_bear")
         ELSE IF notna(prev.MA5) /\ notna(prev.MA10)
         THEN IF prev.MA5 <= prev.MA10 /\ latest.MA5 > latest.MA10
              THEN Fire(5, "ma_golden")
              ELSE IF prev.MA5 >= prev.MA10 /\ latest.MA5 < latest.MA10
              THEN Fire(-5, "ma_dead")
              ELSE Skip
         ELSE Skip
    ELSE Skip

TechMacdAvail(latest, prev) ==
    notna(latest.DIF) /\ notna(latest.DEA) /\ notna(prev.DIF) /\ notna(prev.DEA)

TechMacdCross(latest, prev) ==
    IF TechMacdAvail(latest, prev)
    THEN IF prev.DIF <= prev.DEA /\ latest.DIF > latest.DEA
         THEN Fire(6, "macd_golden")
         ELSE IF prev.DIF >= prev.DEA /\ latest.DIF < latest.DEA
         THEN Fire(-6, "macd_dead")
         ELSE Skip
    ELSE Skip

\* MACD is 2*(DIF-DEA): available whenever DIF and DEA are.
TechMacdHist(latest, prev) ==
    IF TechMacdAvail(latest, prev)
    THEN IF latest.MACD > 0 /\ latest.MACD > prev.MACD
         THEN Fire(1, "macd_hist_up")
         ELSE IF latest.MACD < 0 /\ latest.MACD < prev.MACD
         THEN Fire(-1, "macd_hist_down")
         ELSE Skip
    ELSE Skip

\* An RSI rule whose two low tiers are exchanged
TechRsiSwapped(latest) ==
    IF notna(latest.RSI)
    THEN IF latest.RSI < 30 THEN Fire(2, "rsi_low")
         ELSE IF latest.RSI < 40 THEN Fire(5, "rsi_oversold")
         ELSE IF latest.RSI > 70 THEN Fire(-5, "rsi_overbought")
         ELSE IF latest.RSI > 60 THEN Fire(-2, "rsi_high")
         ELSE Skip
    ELSE Skip

TechRSI(latest) ==
    IF notna(latest.RSI)
    THEN IF latest.RSI < 30 THEN Fire(5, "rsi_oversold")
         ELSE IF latest.RSI < 40 THEN Fire(2, "rsi_low")
         ELSE IF latest.RSI > 70 THEN Fire(-5, "rsi_overbought")
         ELSE IF latest.RSI > 60 THEN Fire(-2, "rsi_high")
         ELSE Skip
    ELSE Skip

TechKdjAvail(latest) == notna(latest.K) /\ notna(latest.D) /\ notna(latest.J)

TechKdjJ(latest) ==
    IF TechKdjAvail(latest)
    THEN IF latest.J < 20 THEN Fire(3, "kdj_oversold")
         ELSE IF latest.J > 80 THEN Fire(-3, "kdj_overbought")
         ELSE Skip
    ELSE Skip

TechKdjCross(latest, prev) ==
    IF TechKdjAvail(latest) /\ notna(prev.K) /\ notna(prev.D)
    THEN IF prev.K <= prev.D /\ latest.K > latest.D
         THEN Fire(2, "kdj_golden")
         ELSE IF prev.K >= prev.D /\ latest.K < latest.D
         THEN Fire(-2, "kdj_dead")
         ELSE Skip
    ELSE Skip

TechBoll(latest) ==
    IF notna(latest.BOLL_UP) /\ notna(latest.BOLL_DN)
    THEN IF latest.close <= latest.BOLL_DN THEN Fire(3, "boll_lower")
         ELSE IF latest.close >= latest.BOLL_UP THEN Fire(-3, "boll_upper")
         ELSE Skip
    ELSE Skip

TechVolRatio(latest, prev) ==
    IF notna(latest.VOL_RATIO)
    THEN IF latest.VOL_RATIO > 20 /\ latest.close > prev.close
         THEN Fire(3, "vol_up")
         ELSE IF latest.VOL_RATIO > 20 /\ latest.close < prev.close
         THEN Fire(-3, "vol_down")
         ELSE Skip
    ELSE Skip

TechADX(latest) ==
    IF notna(latest.ADX) /\ notna(latest.PLUS_DI) /\ notna(latest.MINUS_DI)
    THEN IF latest.ADX > 25 /\ latest.PLUS_DI > latest.MINUS_DI
         THEN Fire(3, "adx_up")
         ELSE IF latest.ADX > 25 /\ latest.PLUS_DI < latest.MINUS_DI
         THEN Fire(-3, "adx_down")
         ELSE Skip
    ELSE Skip

TechWR(latest) ==
    IF notna(latest.WR)
    THEN IF latest.WR < -80 THEN Fire(2, "wr_oversold")
         ELSE IF latest.WR > -20 THEN Fire(-2, "wr_overbought")
         ELSE Skip
    ELSE Skip

TechCCI(latest) ==
    IF notna(latest.CCI)
    THEN IF latest.CCI < -100 THEN Fire(2, "cci_oversold")
         ELSE IF latest.CCI > 100 THEN Fire(-2, "cci_overbought")
         ELSE Skip
    ELSE Skip

TechOBV(latest, prev) ==
    IF notna(latest.OBV) /\ notna(latest.OBV_MA5)
    THEN IF latest.OBV > latest.OBV_MA5 /\ latest.close > prev.close
         THEN Fire(1, "obv_up")
         ELSE IF latest.OBV < latest.OBV_MA5 /\ latest.close < prev.close
         THEN Fire(-1, "obv_down")
         ELSE Skip
    ELSE Skip

TechATR(latest) ==
    IF notna(latest.ATR_PCT) /\ latest.ATR_PCT < 20
    THEN Fire(1, "low_vol")
    ELSE Skip

TechRules(latest, prev) ==
    << TechMA(latest, prev), TechMacdCross(latest, prev),
       TechMacdHist(latest, prev), TechRSI(latest), TechKdjJ(latest),
       TechKdjCross(latest, prev), TechBoll(latest),
       TechVolRatio(latest, prev), TechADX(latest), TechWR(latest),
       TechCCI(latest), TechOBV(latest, prev), TechATR(latest) >>

\* score_technical with the length test of score_momentum
score_technical_20(df) ==
    IF df.len < 20
    THEN Neutral
    ELSE LET rules == TechRules(df.latest, df.prev)
         IN  Scored(Clamp(-40, 40, SumPts(rules)), CatSigs(rules))

score_technical(df) ==
    IF df.len < MIN_ROWS
    THEN Neutral
    ELSE LET rules == TechRules(df.latest, df.prev)
         IN  Scored(Clamp(-40, 40, SumPts(rules)), CatSigs(rules))

(***************************************************************************)
(* score_valuation                                                         *)
(***************************************************************************)
\* P/E tiers with the two middle tiers exchanged
ValPeSwapped(latest) ==
    LET pe == latest.peTTM
    IN  IF notna(pe) /\ pe > 0
        THEN IF pe <= 150 THEN Fire(10, "pe_low")
             ELSE IF pe <= 250 THEN Fire(-3, "pe_high")
             ELSE IF pe <= 500 THEN Fire(5, "pe_fair")
             ELSE Fire(-10, "pe_very_high")
        ELSE IF notna(pe) /\ pe < 0 THEN Fire(-10, "pe_negative")
        ELSE Skip

ValPE(latest) ==
    LET pe == latest.peTTM
    IN  IF notna(pe) /\ pe > 0
        THEN IF pe <= 150 THEN Fire(10, "pe_low")
             ELSE IF pe <= 250 THEN Fire(5, "pe_fair")
             ELSE IF pe <= 500 THEN Fire(-3, "pe_high")
             ELSE Fire(-10, "pe_very_high")
        ELSE IF notna(pe) /\ pe < 0 THEN Fire(-10, "pe_negative")
        ELSE Skip

ValPB(latest) ==
    LET pb == latest.pbMRQ
    IN  IF notna(pb) /\ pb > 0
        THEN IF pb <= 10 THEN Fire(8, "pb_below_book")
             ELSE IF pb <= 20 THEN Fire(4, "pb_low")
             ELSE IF pb <= 50 THEN Fire(-2, "pb_high")
             ELSE Fire(-8, "pb_very_high")
        ELSE Skip

\* P/S tiers without the gap between 5 and 10
ValPsGapless(latest) ==
    LET ps == latest.psTTM
    IN  IF notna(ps) /\ ps > 0
        THEN IF ps <= 20 THEN Fire(7, "ps_low")
             ELSE IF ps <= 50 THEN Fire(3, "ps_fair")
             ELSE Fire(-7, "ps_very_high")
        ELSE Skip

ValPS(latest) ==
    LET ps == latest.psTTM
    IN  IF notna(ps) /\ ps > 0
        THEN IF ps <= 20 THEN Fire(7, "ps_low")
             ELSE IF ps <= 50 THEN Fire(3, "ps_fair")
             ELSE IF ps > 100 THEN Fire(-7, "ps_very_high")
             ELSE Skip
        ELSE Skip

score_valuation(latest) ==
    LET rules == << ValPE(latest), ValPB(latest), ValPS(latest) >>
    IN  Scored(Clamp(-25, 25, SumPts(rules)), CatSigs(rules))

(***************************************************************************)
(* score_fundamental.  fin is what load_finance_data returned:             *)
(* [exists, cols, rows]; exists = FALSE is None, a cell that does not      *)
(* parse as a number is NA.                                                *)
(***************************************************************************)
RECURSIVE SelectSeq2(_, _)
SelectSeq2(rows, type) ==
    IF rows = <<>> THEN <<>>
    ELSE IF Head(rows).data_type = type
         THEN <<Head(rows)>> \o SelectSeq2(Tail(rows), type)
         ELSE SelectSeq2(Tail(rows), type)

\* The first record of the type in file order, whatever its date
MostRecentFiled(rows, type) == SelectSeq2(rows, type)[1]

\* fin[fin.data_type == type].sort_values("statDate", ascending=False).iloc[0]
MostRecent(rows, type) ==
    LET sel == SelectSeq2(rows, type)
    IN  sel[CHOOSE i \in 1..Len(sel) :
                \A j \in 1..Len(sel) : sel[j].statDate <= sel[i].statDate]

HasType(rows, type) == SelectSeq2(rows, type) # <<>>

FundCell(fin, type, col) ==
    IF HasType(fin.rows, type) /\ col \in fin.cols
    THEN MostRecent(fin.rows, type)[col]
    ELSE NA

FundROE(fin) ==
    LET roe == FundCell(fin, "profit", "roeAvg")
    IN  IF notna(roe)
        THEN IF roe >= 15 THEN Fire(8, "roe_excellent")
             ELSE IF roe >= 10 THEN Fire(4, "roe_good")
             ELSE IF roe >= 0 THEN Quiet(0)
             ELSE Fire(-8, "roe_negative")
        ELSE Skip

FundRevenue(fin) ==
    LET g == FundCell(fin, "growth", "YOYEquity")
    IN  IF notna(g)
        THEN IF g >= 30 THEN Fire(7, "rev_high_growth")
             ELSE IF g >= 10 THEN Fire(3, "rev_growth")
             ELSE IF g < -10 THEN Fire(-7, "rev_decline")
             ELSE Skip
        ELSE Skip

FundProfit(fin) ==
    LET g == FundCell(fin, "growth", "YOYNI")
    IN  IF notna(g)
        THEN IF g >= 30 THEN Fire(5, "ni_high_growth")
             ELSE IF g >= 10 THEN Fire(2, "ni_growth")
             ELSE IF g < -20 THEN Fire(-5, "ni_decline")
             ELSE Skip
        ELSE Skip

FundMargin(fin) ==
    LET m == FundCell(fin, "profit", "gpMargin")
    IN  IF notna(m)
        THEN IF m >= 50 THEN Fire(5, "margin_high")
             ELSE IF m >= 30 THEN Fire(2, "margin_good")
             ELSE IF m < 10 THEN Fire(-5, "margin_low")
             ELSE Skip
        ELSE Skip

score_fundamental(fin) ==
    IF ~fin.exists \/ fin.rows = <<>>
    THEN Neutral
    ELSE LET rules == << FundROE(fin), FundRevenue(fin), FundProfit(fin),
                         FundMargin(fin) >>
         IN  Scored(Clamp(-25, 25, SumPts(rules)), CatSigs(rules))

(***************************************************************************)
(* score_risk.  isST and tradestatus are compared as strings ("1", "0").   *)
(* load_daily_data leaves the two columns to the type inference of         *)
(* read_csv: a cell is the number v with the dtype of its column, int64,   *)
(* or float64 when some cell of the column is empty (v = NA in the empty   *)
(* cell itself); dtype "none" stands for a file without the column, where  *)
(* latest.get returns None.                                                *)
(***************************************************************************)
Cell(v, dtype) == [v |-> v, dtype |-> dtype]

\* str(x) of a flag cell
PyStr(cell) ==
    IF cell.dtype = "none" THEN "None"
    ELSE IF ~notna(cell.v) THEN "nan"
    ELSE LET digits == IF cell.v = 0 THEN "0"
                       ELSE IF cell.v = 1 THEN "1" ELSE "2"
         IN  IF cell.dtype = "int64" THEN digits ELSE digits \o ".0"

RiskST(latest) ==
    IF PyStr(latest.isST) = "1" THEN Fire(-10, "st") ELSE Skip

RiskHalt(latest) ==
    IF PyStr(latest.tradestatus) = "0" THEN Fire(-5, "halted") ELSE Skip

RiskATR(latest) ==
    IF notna(latest.ATR_PCT) /\ latest.ATR_PCT > 50
    THEN Fire(-3, "high_vol")
    ELSE Skip

RiskVolume(latest) ==
    IF notna(latest.VOL_RATIO) /\ latest.VOL_RATIO < 3
    THEN Fire(-2, "illiquid")
    ELSE Skip

\* score_risk without the floor at 0
RiskClampNoFloor(score) == Min2(10, score)

RiskClamp(score) == Max2(0, Min2(10, score))

score_risk(latest) ==
    LET rules == << RiskST(latest), RiskHalt(latest), RiskATR(latest),
                    RiskVolume(latest) >>
    IN  Scored(RiskClamp(10 + SumPts(rules)), CatSigs(rules))

(***************************************************************************)
(* The price history.  df = [len, hasPct, hasTurn, tail, latest, prev]:    *)
(* len is the number of rows, tail the last rows as [close, pctChg,        *)
(* volume, turn] (the last TailLen of them, all when there are fewer),     *)
(* latest and prev the last two rows of the indicator frame.  hasPct and   *)
(* hasTurn tell whether the file has the pctChg and the turn column.       *)
(***************************************************************************)
TailLen == 21

\* df.tail(k) / closes[-k:]
LastK(rows, k) ==
    IF Len(rows) <= k THEN rows ELSE SubSeq(rows, Len(rows) - k + 1, Len(rows))

\* .head(k)
FirstK(rows, k) == IF Len(rows) <= k THEN rows ELSE SubSeq(rows, 1, k)

\* closes[-k]
CloseAt(df, k) == df.tail[Len(df.tail) - k + 1].close

RECURSIVE SumCol(_, _)
SumCol(rows, col) ==
    IF rows = <<>> THEN 0 ELSE Head(rows)[col] + SumCol(Tail(rows), col)

\* A comparison with NaN is false.
NLt(a, b) == notna(a) /\ notna(b) /\ a < b

NGt(a, b) == notna(a) /\ notna(b) /\ a > b

\* pct_changes: the pctChg column, or the day-over-day change of the close
\* (one element fewer) when the file has no such column; closes are positive.
PctChanges(df) ==
    IF df.hasPct
    THEN [i \in 1..Len(df.tail) |-> df.tail[i].pctChg]
    ELSE [i \in 1..(Len(df.tail) - 1) |->
              df.tail[i + 1].close - df.tail[i].close]

(***************************************************************************)
(* score_momentum                                                          *)
(***************************************************************************)
MomRet5(df) ==
    IF df.len >= 6
    THEN LET d == 100 * (CloseAt(df, 1) - CloseAt(df, 6))
             b == CloseAt(df, 6)
         IN  IF d < -15 * b THEN Fire(5, "ret5_deep_drop")
             ELSE IF d < -5 * b THEN Fire(2, "ret5_pullback")
             ELSE IF 5 * b <= d /\ d <= 15 * b THEN Fire(3, "ret5_momentum")
             ELSE IF d > 15 * b THEN Fire(-5, "ret5_surge")
             ELSE Skip
    ELSE Skip

MomRet20(df) ==
    IF df.len >= 21
    THEN LET d == 100 * (CloseAt(df, 1) - CloseAt(df, 21))
             b == CloseAt(df, 21)
         IN  IF d < -20 * b THEN Fire(3, "ret20_deep_drop")
             ELSE IF d > 30 * b THEN Fire(-3, "ret20_surge")
             ELSE Skip
    ELSE Skip

\* for i in range(len(pct_changes) - 1, -1, -1): count until pct >= 0 or NaN.
\* The scan reads the tail only: a streak longer than the tail counts as the
\* tail's length, which is past every threshold of the rule.
RECURSIVE ConsecDownFrom(_, _)
ConsecDownFrom(pcts, i) ==
    IF i = 0 THEN 0
    ELSE IF NLt(pcts[i], 0) THEN 1 + ConsecDownFrom(pcts, i - 1)
    ELSE 0

ConsecDown(df) == ConsecDownFrom(PctChanges(df), Len(PctChanges(df)))

\* Tiers in which four falling days already earn the larger bonus
MomConsecFrom4(df) ==
    IF ConsecDown(df) >= 4 THEN Fire(3, "down_streak_5")
    ELSE IF ConsecDown(df) >= 3 THEN Fire(1, "down_streak_3")
    ELSE Skip

MomConsec(df) ==
    IF ConsecDown(df) >= 5 THEN Fire(3, "down_streak_5")
    ELSE IF ConsecDown(df) >= 3 THEN Fire(1, "down_streak_3")
    ELSE Skip

RECURSIVE MinCol(_, _)
MinCol(rows, col) ==
    IF Len(rows) = 1 THEN rows[1][col]
    ELSE Min2(Head(rows)[col], MinCol(Tail(rows), col))

RECURSIVE MaxCol(_, _)
MaxCol(rows, col) ==
    IF Len(rows) = 1 THEN rows[1][col]
    ELSE Max2(Head(rows)[col], MaxCol(Tail(rows), col))

MomPosition(df) ==
    LET recent20 == LastK(df.tail, 20)
        low20 == MinCol(recent20, "close")
        high20 == MaxCol(recent20, "close")
        cur == CloseAt(df, 1)
    IN  IF high20 > low20
        THEN IF 10 * (cur - low20) < high20 - low20
             THEN Fire(2, "near_low20")
             ELSE IF 10 * (cur - low20) > 9 * (high20 - low20)
             THEN Fire(-2, "near_high20")
             ELSE Skip
        ELSE Skip

score_momentum(df) ==
    IF df.len < 20
    THEN Neutral
    ELSE LET rules == << MomRet5(df), MomRet20(df), MomConsec(df),
                         MomPosition(df) >>
         IN  Scored(Clamp(-15, 15, SumPts(rules)), CatSigs(rules))

(***************************************************************************)
(* score_flow.  flow_data = [isNone, rows]: isNone is the None that        *)
(* fetch_capital_flow returns on failure (and the default), rows the       *)
(* records [main_net, main_pct], oldest first.                             *)
(***************************************************************************)
FlowPathA(flow_data) == ~flow_data.isNone /\ Len(flow_data.rows) >= 3

FlowTotal(rows) ==
    LET total_main_wan == SumCol(rows, "main_net")
    IN  IF total_main_wan > 5000 THEN Fire(6, "main_inflow_large")
        ELSE IF total_main_wan > 1000 THEN Fire(3, "main_inflow")
        ELSE IF total_main_wan < -5000 THEN Fire(-6, "main_outflow_large")
        ELSE IF total_main_wan < -1000 THEN Fire(-3, "main_outflow")
        ELSE Skip

\* A count of every record with a positive net inflow, wherever it lies
ConsecInAll(rows, i) == Cardinality({j \in 1..i : rows[j].main_net > 0})

\* for r in reversed(flow_data): count while main_net > 0
RECURSIVE ConsecIn(_, _)
ConsecIn(rows, i) ==
    IF i = 0 THEN 0
    ELSE IF rows[i].main_net > 0 THEN 1 + ConsecIn(rows, i - 1)
    ELSE 0

\* for r in reversed(flow_data): count while main_net < 0
RECURSIVE ConsecOut(_, _)
ConsecOut(rows, i) ==
    IF i = 0 THEN 0
    ELSE IF rows[i].main_net < 0 THEN 1 + ConsecOut(rows, i - 1)
    ELSE 0

FlowStreakIn(rows) ==
    IF ConsecIn(rows, Len(rows)) >= 3 THEN Fire(4, "inflow_streak_3")
    ELSE IF ConsecIn(rows, Len(rows)) >= 2 THEN Fire(2, "inflow_streak_2")
    ELSE Skip

FlowStreakOut(rows) ==
    IF ConsecOut(rows, Len(rows)) >= 3 THEN Fire(-4, "outflow_streak_3")
    ELSE Skip

FlowShare(rows) ==
    LET latest_pct == rows[Len(rows)].main_pct
    IN  IF latest_pct > 15 THEN Fire(5, "share_high")
        ELSE IF latest_pct > 5 THEN Fire(3, "share_positive")
        ELSE IF latest_pct < -15 THEN Fire(-5, "share_very_negative")
        ELSE IF latest_pct < -5 THEN Fire(-3, "share_negative")
        ELSE Skip

\* The 3/5/10-day summary lines: signals only, no points.
FlowSummary(rows, period) ==
    IF Len(rows) >= period
    THEN IF period = 3 THEN Fire(0, "summary_3")
         ELSE IF period = 5 THEN Fire(0, "summary_5")
         ELSE Fire(0, "summary_10")
    ELSE Skip

FlowRulesA(rows) ==
    << FlowTotal(rows), FlowStreakIn(rows), FlowStreakOut(rows),
       FlowShare(rows), FlowSummary(rows, 3), FlowSummary(rows, 5),
       FlowSummary(rows, 10) >>

\* ---- the volume/price proxy ----
\* vol_ma20 is SumCol(recent20, "volume") / Len(recent20).
Recent20(df) == LastK(df.tail, 20)

Recent5(df) == LastK(df.tail, 5)

VolSum20(df) == SumCol(Recent20(df), "volume")

\* row.get("pctChg", 0)
PctOr0(df, row) == IF df.hasPct THEN row.pctChg ELSE 0

\* row["volume"] > vol_ma20 * 1.5 and row.get("pctChg", 0) > 0
IsVolUpDay(df, row) ==
    /\ 2 * row.volume * Len(Recent20(df)) > 3 * VolSum20(df)
    /\ NGt(PctOr0(df, row), 0)

RECURSIVE CountVolUp(_, _)
CountVolUp(df, rows) ==
    IF rows = <<>> THEN 0
    ELSE (IF IsVolUpDay(df, Head(rows)) THEN 1 ELSE 0)
         + CountVolUp(df, Tail(rows))

VolUpDays(df) == CountVolUp(df, Recent5(df))

FlowVolUp(df) ==
    IF VolUpDays(df) >= 3 THEN Fire(5, "vol_up_days_3")
    ELSE IF VolUpDays(df) >= 2 THEN Fire(3, "vol_up_days_2")
    ELSE Skip

\* The non-NaN cells of a column (pandas' mean skips NaN).
RECURSIVE NotNaCol(_, _)
NotNaCol(rows, col) ==
    IF rows = <<>> THEN <<>>
    ELSE (IF notna(Head(rows)[col]) THEN <<Head(rows)>> ELSE <<>>)
         \o NotNaCol(Tail(rows), col)

\* prev5_pct < -1, prev5_pct being df.tail(8).head(5)["pctChg"].mean()
Prev5Below(df) ==
    LET cells == NotNaCol(FirstK(LastK(df.tail, 8), 5), "pctChg")
    IN  cells # <<>> /\ SumCol(cells, "pctChg") < -10 * Len(cells)

FlowStabilize(df) ==
    LET last3 == LastK(df.tail, 3)
        p1 == IF df.hasPct THEN last3[1].pctChg ELSE 0
        p3 == IF df.hasPct THEN last3[3].pctChg ELSE 0
        vol_shrink ==
            \A i \in 1..3 :
                5 * last3[i].volume * Len(Recent20(df)) < 4 * VolSum20(df)
        pct_stabilize ==
            /\ NLt(p3, 20) /\ NGt(p3, -20)
            /\ (NGt(p3, p1) \/ NGt(p3, 0))
    IN  IF Len(last3) = 3 /\ Prev5Below(df) /\ vol_shrink /\ pct_stabilize
        THEN Fire(3, "quiet_stabilize")
        ELSE Skip

\* turn5 / prev15 with turn5 = s5/5 and prev15 = s15/15
FlowTurnover(df) ==
    LET s5 == SumCol(Recent5(df), "turn")
        s15 == SumCol(FirstK(Recent20(df), 15), "turn")
    IN  IF df.hasTurn /\ s15 > 0
        THEN IF 3 * s5 > 2 * s15 THEN Fire(4, "turnover_accel")
             ELSE IF 2 * s5 > s15 THEN Fire(2, "turnover_warm")
             ELSE Skip
        ELSE Skip

FlowBlowOff(df) ==
    LET last == df.tail[Len(df.tail)]
    IN  IF last.volume * Len(Recent20(df)) > 3 * VolSum20(df)
           /\ NGt(PctOr0(df, last), 50)
        THEN Fire(-5, "blow_off_top")
        ELSE Skip

IsDownDay(df, row) == NLt(PctOr0(df, row), 0)

RECURSIVE CountDown(_, _)
CountDown(df, rows) ==
    IF rows = <<>> THEN 0
    ELSE (IF IsDownDay(df, Head(rows)) THEN 1 ELSE 0)
         + CountDown(df, Tail(rows))

\* A decline penalty that does not ask for the absence of volume-up days
FlowDeclineAnyVolume(df) ==
    IF CountDown(df, Recent5(df)) >= 4
    THEN Fire(-3, "quiet_decline")
    ELSE Skip

FlowDecline(df) ==
    IF VolUpDays(df) = 0 /\ CountDown(df, Recent5(df)) >= 4
    THEN Fire(-3, "quiet_decline")
    ELSE Skip

FlowRulesB(df) ==
    << FlowVolUp(df), FlowStabilize(df), FlowTurnover(df), FlowBlowOff(df),
       FlowDecline(df) >>

\* df.tail(8).head(5)["pctChg"] is read whether or not the column exists:
\* on the proxy path a file without pctChg column ends score_flow with KeyError.
score_flow_raises(df, flow_data) ==
    /\ df.len >= 20
    /\ ~FlowPathA(flow_data)
    /\ VolSum20(df) > 0
    /\ ~df.hasPct

score_flow(df, flow_data) ==
    IF df.len < 20 THEN Neutral
    ELSE IF FlowPathA(flow_data)
    THEN LET rules == FlowRulesA(flow_data.rows)
         IN  Scored(Clamp(-15, 15, SumPts(rules)), CatSigs(rules))
    ELSE IF VolSum20(df) <= 0 THEN Neutral
    ELSE LET rules == FlowRulesB(df)
         IN  Scored(Clamp(-15, 15, SumPts(rules)), CatSigs(rules))

(***************************************************************************)
(* score_news.  A news item is [title, time, weight]; the title is         *)
(* modelled by the set of dictionary keywords it contains.  The keyword    *)
(* lists keep two entries each of the program's lists, among them the      *)
(* pairs in which one keyword is a substring of another list's keyword     *)
(* (every title with "loss_forecast" also has "loss", every title with     *)
(* "strategic_pact" also has "cooperation").                               *)
(* gemini = [key, ok, score] is the sentiment provider: key is whether     *)
(* GEMINI_API_KEY is set, ok whether the request succeeded, score the      *)
(* integer of the reply's SCORE line, NA when the reply has no line that   *)
(* parses.                                                                 *)
(***************************************************************************)
NEWS_MAJOR_POS == << "bid_won", "strategic_pact" >>

NEWS_MINOR_POS == << "cooperation", "limit_up" >>

NEWS_MAJOR_NEG == << "loss_forecast", "lawsuit" >>

NEWS_MINOR_NEG == << "share_sale", "loss" >>

\* for kw in LIST: if kw in title: ...; break  -- the first keyword found
RECURSIVE FirstMatch(_, _)
FirstMatch(list, title) ==
    IF list = <<>> THEN "none"
    ELSE IF Head(list) \in title THEN Head(list)
    ELSE FirstMatch(Tail(list), title)

Matches(list, title) == FirstMatch(list, title) # "none"

\* truncation toward zero of a number kept in tenths
TruncTenths(x) == IF x >= 0 THEN x \div 10 ELSE -((-x) \div 10)

analyze_news_with_gemini(gemini, news_items) ==
    IF ~gemini.key \/ news_items = <<>> THEN NA
    ELSE IF ~gemini.ok THEN NA
    ELSE IF notna(gemini.score) THEN Clamp(-15, 15, gemini.score)
    ELSE 0

\* sorted(news_items, key=time, reverse=True)[:3]: one line per item
Headlines(news_items) == [i \in 1..Min2(3, Len(news_items)) |-> "headline"]

NewsGemini(final, news_items) ==
    Scored(final,
           << IF final > 0 THEN "gemini_positive"
              ELSE IF final < 0 THEN "gemini_negative"
              ELSE "gemini_neutral" >> \o Headlines(news_items))

(***************************************************************************)
(* Python floats.  The keyword path adds products of the weights 1.0, 0.8, *)
(* 0.6, 0.4, 0.2 in binary64 arithmetic.  A float is [neg, m]: a sign and  *)
(* a magnitude counted in units of 2^-55 (the last bit of the double       *)
(* nearest to 0.2), m being five limbs of 13 bits, lowest first.  Every    *)
(* operation computes the exact result and rounds it to 53 significant     *)
(* bits, ties to even, as IEEE 754 does; magnitudes stay below 2^10.       *)
(***************************************************************************)
RECURSIVE MagAdd(_, _, _, _)
MagAdd(a, b, k, carry) ==
    IF k > 5 THEN <<>>
    ELSE LET s == a[k] + b[k] + carry
         IN  <<s % 8192>> \o MagAdd(a, b, k + 1, s \div 8192)

\* a - b for a >= b
RECURSIVE MagSub(_, _, _, _)
MagSub(a, b, k, borrow) ==
    IF k > 5 THEN <<>>
    ELSE LET d == a[k] - b[k] - borrow
         IN  IF d < 0 THEN <<d + 8192>> \o MagSub(a, b, k + 1, 1)
             ELSE <<d>> \o MagSub(a, b, k + 1, 0)

\* 1, 0, -1 as a > b, a = b, a < b, comparing from limb k downward
RECURSIVE MagCmp(_, _, _)
MagCmp(a, b, k) ==
    IF k = 0 THEN 0
    ELSE IF a[k] > b[k] THEN 1
    ELSE IF a[k] < b[k] THEN -1
    ELSE MagCmp(a, b, k - 1)

RECURSIVE BitLen(_)
BitLen(x) == IF x = 0 THEN 0 ELSE 1 + BitLen(x \div 2)

RECURSIVE Pow2(_)
Pow2(n) == IF n = 0 THEN 1 ELSE 2 * Pow2(n - 1)

\* number of significant bits of a magnitude
RECURSIVE MagBits(_, _)
MagBits(m, k) ==
    IF k = 0 THEN 0
    ELSE IF m[k] # 0 THEN 13 * (k - 1) + BitLen(m[k])
    ELSE MagBits(m, k - 1)

\* round to nearest, ties to even, at 53 significant bits
Round53(m) ==
    IF MagBits(m, 5) <= 53 THEN m
    ELSE LET q == Pow2(MagBits(m, 5) - 53)
             low == m[1] % q
             down == [m EXCEPT ![1] = m[1] - low]
             odd == (m[1] \div q) % 2 = 1
         IN  IF 2 * low > q \/ (2 * low = q /\ odd)
             THEN MagAdd(down, <<q, 0, 0, 0, 0>>, 1, 0)
             ELSE down

\* x + y
FAdd(x, y) ==
    IF x.neg # y.neg /\ MagCmp(x.m, y.m, 5) = 0
    THEN [neg |-> FALSE, m |-> <<0, 0, 0, 0, 0>>]
    ELSE [neg |-> IF x.neg = y.neg \/ MagCmp(x.m, y.m, 5) > 0
                  THEN x.neg ELSE y.neg,
          m |-> Round53(IF x.neg = y.neg THEN MagAdd(x.m, y.m, 1, 0)
                        ELSE IF MagCmp(x.m, y.m, 5) > 0
                        THEN MagSub(x.m, y.m, 1, 0)
                        ELSE MagSub(y.m, x.m, 1, 0))]

\* x < y
FLt(x, y) ==
    IF x.neg # y.neg THEN x.neg /\ (MagBits(x.m, 5) + MagBits(y.m, 5) > 0)
    ELSE IF x.neg THEN MagCmp(x.m, y.m, 5) > 0
    ELSE MagCmp(x.m, y.m, 5) < 0

\* float(n) of an integer 0 <= |n| < 1024
FInt(n) ==
    [neg |-> n < 0, m |-> <<0, 0, 0, 0, 8 * (IF n < 0 THEN -n ELSE n)>>]

\* int(x): truncation toward zero
PyInt(x) == IF x.neg THEN -(x.m[5] \div 8) ELSE x.m[5] \div 8

\* The float literal of a weight given in tenths (weight = 1.0 ... 0.2):
\* the double nearest to the decimal.
Double(w) ==
    [neg |-> FALSE,
     m |-> CASE w = 10 -> <<0, 0, 0, 0, 8>>
             [] w = 8 -> <<1640, 4915, 6553, 3276, 6>>
             [] w = 6 -> <<3276, 1638, 4915, 6553, 4>>
             [] w = 4 -> <<4916, 6553, 3276, 1638, 3>>
             [] w = 2 -> <<6554, 3276, 1638, 4915, 1>>]

\* 2 * x, exact
Twice(x) == FAdd(x, x)

\* 8 * w is exact (a power of two); 3 * w is w + 2w rounded once
PyMul8(x) == Twice(Twice(Twice(x)))

PyMul3(x) == FAdd(x, Twice(x))

\* `score += y` (neg FALSE) or `score -= y` (neg TRUE) when the title has a
\* keyword of the list: the float added to the score
Delta(keywords, title, y, neg) ==
    IF Matches(keywords, title) THEN <<[y EXCEPT !.neg = neg]>> ELSE <<>>

\* the score after the additions, left to right
RECURSIVE FSum(_, _)
FSum(score, deltas) ==
    IF deltas = <<>> THEN score
    ELSE FSum(FAdd(score, Head(deltas)), Tail(deltas))

\* The four keyword loops of one item, in the order of the code: the score
\* after the item, the signal of a major keyword, the matched-title marks.
NewsAdd(score, item) ==
    FSum(score,
         Delta(NEWS_MAJOR_POS, item.title, PyMul8(Double(item.weight)), FALSE)
         \o Delta(NEWS_MAJOR_NEG, item.title, PyMul8(Double(item.weight)), TRUE)
         \o Delta(NEWS_MINOR_POS, item.title, PyMul3(Double(item.weight)), FALSE)
         \o Delta(NEWS_MINOR_NEG, item.title, PyMul3(Double(item.weight)), TRUE))

\* score after the first k items
RECURSIVE NewsSum(_, _)
NewsSum(news_items, k) ==
    IF k = 0 THEN FInt(0)
    ELSE NewsAdd(NewsSum(news_items, k - 1), news_items[k])

NewsItem(item) ==
    LET t == item.title
    IN  [ sigs |-> (IF Matches(NEWS_MAJOR_POS, t)
                    THEN <<FirstMatch(NEWS_MAJOR_POS, t)>> ELSE <<>>)
                   \o (IF Matches(NEWS_MAJOR_NEG, t)
                       THEN <<FirstMatch(NEWS_MAJOR_NEG, t)>> ELSE <<>>),
          marks |-> (IF Matches(NEWS_MAJOR_POS, t) THEN <<"up">> ELSE <<>>)
                    \o (IF Matches(NEWS_MAJOR_NEG, t) THEN <<"down">> ELSE <<>>)
                    \o (IF Matches(NEWS_MINOR_POS, t) THEN <<"plus">> ELSE <<>>)
                    \o (IF Matches(NEWS_MINOR_NEG, t) THEN <<"minus">> ELSE <<>>) ]

RECURSIVE CatMarks(_)
CatMarks(rules) ==
    IF rules = <<>> THEN <<>> ELSE Head(rules).marks \o CatMarks(Tail(rules))

\* int(max(-15, min(15, score)))
NewsFinal(score) ==
    PyInt(IF FLt(FInt(15), score) THEN FInt(15)
          ELSE IF FLt(score, FInt(-15)) THEN FInt(-15)
          ELSE score)

\* Lines 909-918: the score with the keyword signals, the verdict and the
\* first three title marks.
KeywordScored(final, rules) ==
    Scored(final,
           CatSigs(rules)
           \o << IF final > 0 THEN "dict_positive"
                 ELSE IF final < 0 THEN "dict_negative"
                 ELSE "dict_neutral" >>
           \o FirstK(CatMarks(rules), 3))

NewsKeyword(news_items) ==
    KeywordScored(NewsFinal(NewsSum(news_items, Len(news_items))),
                  [i \in 1..Len(news_items) |-> NewsItem(news_items[i])])

\* A score_news that tests the provider's score for truth (`if gemini_score:`)
score_news_truthy(news_items, gemini) ==
    IF news_items = <<>> THEN Neutral
    ELSE IF gemini.key /\ notna(analyze_news_with_gemini(gemini, news_items))
            /\ analyze_news_with_gemini(gemini, news_items) # 0
    THEN NewsGemini(analyze_news_with_gemini(gemini, news_items), news_items)
    ELSE NewsKeyword(news_items)

\* TRUE iff the call score_news(news_items, ...) calls
\* analyze_news_with_gemini
score_news_consults(news_items, gemini) == news_items # <<>> /\ gemini.key

score_news(news_items, gemini) ==
    IF news_items = <<>> THEN Neutral
    ELSE IF gemini.key /\ notna(analyze_news_with_gemini(gemini, news_items))
    THEN NewsGemini(analyze_news_with_gemini(gemini, news_items), news_items)
    ELSE NewsKeyword(news_items)

(***************************************************************************)
(* evaluate_single.  daily = [exists, df] is what load_daily_data finds    *)
(* (exists = FALSE: no file, or one that cannot be read); news_data is a   *)
(* sequence, None being the empty one (news_data or []).  The outcome is   *)
(* [kind |-> "none"], [kind |-> "raise"] (an exception leaves the call)    *)
(* or [kind |-> "result", r |-> the result dict]; calls lists the scorers  *)
(* the call entered, in order.                                             *)
(***************************************************************************)
Scorers ==
    << "score_technical", "score_valuation", "score_fundamental",
       "score_risk", "score_momentum", "score_flow", "score_news" >>

\* evaluate_single classifying with the boundaries of the heat pass
Classify60(total) ==
    IF total >= 60 THEN "strong_buy"
    ELSE IF total >= 30 THEN "buy"
    ELSE IF total <= -40 THEN "strong_sell"
    ELSE IF total <= -15 THEN "sell"
    ELSE "hold"

Classify(total) ==
    IF total >= 65 THEN "strong_buy"
    ELSE IF total >= 30 THEN "buy"
    ELSE IF total <= -45 THEN "strong_sell"
    ELSE IF total <= -15 THEN "sell"
    ELSE "hold"

\* latest.get("pctChg", 0) or 0
LatestPct(df) == IF df.hasPct THEN df.tail[Len(df.tail)].pctChg ELSE 0

Total7(tech, val, fund, risk, mom, flow, news) ==
    tech.score + val.score + fund.score + risk.score + mom.score
    + flow.score + news.score

\* A gate that lets a history of MIN_ROWS - 1 rows through
NotEvaluableLate(daily) == ~daily.exists \/ daily.df.len < MIN_ROWS - 1

\* df is None or len(df) < MIN_ROWS
NotEvaluable(daily) == ~daily.exists \/ daily.df.len < MIN_ROWS

evaluate_single(code, daily, fin, flow_data, news_data, gemini) ==
    IF NotEvaluable(daily)
    THEN [kind |-> "none", calls |-> <<>>]
    ELSE IF score_flow_raises(daily.df, flow_data)
    THEN [kind |-> "raise", calls |-> SubSeq(Scorers, 1, 6)]
    ELSE LET df == daily.df
             tech == score_technical(df)
             val == score_valuation(df.latest)
             fund == score_fundamental(fin)
             risk == score_risk(df.latest)
             mom == score_momentum(df)
             flow == score_flow(df, flow_data)
             news == score_news(news_data, gemini)
             total == Total7(tech, val, fund, risk, mom, flow, news)
         IN  [kind |-> "result", calls |-> Scorers,
              r |-> [code |-> code,
                     pctChg |-> LatestPct(df),
                     total_score |-> total,
                     tech_score |-> tech.score,
                     val_score |-> val.score,
                     fund_score |-> fund.score,
                     risk_score |-> risk.score,
                     mom_score |-> mom.score,
                     flow_score |-> flow.score,
                     news_score |-> news.score,
                     heat_score |-> 0,
                     action |-> Classify(total),
                     tech_signals |-> tech.signals,
                     val_signals |-> val.signals,
                     fund_signals |-> fund.signals,
                     risk_signals |-> risk.signals,
                     mom_signals |-> mom.signals,
                     flow_signals |-> flow.signals,
                     news_signals |-> news.signals,
                     heat_signals |-> <<>>]]

(***************************************************************************)
(* _apply_sector_heat.  boards_data maps a code to its concept tags (the   *)
(* "concept" list of load_boards, which holds no tag twice).  The heat of  *)
(* a concept is a mean, kept as [s, n] = sum / count.                      *)
(***************************************************************************)
RECURSIVE ConceptPcts(_, _, _)
ConceptPcts(results, boards_data, c) ==
    IF results = <<>> THEN [s |-> 0, n |-> 0]
    ELSE LET r == Head(results)
             rest == ConceptPcts(Tail(results), boards_data, c)
         IN  IF notna(r.pctChg) /\ c \in boards_data[r.code]
             THEN [s |-> rest.s + r.pctChg, n |-> rest.n + 1]
             ELSE rest

\* c in concept_heat: len(v) >= 3
HasHeat(results, boards_data, c) == ConceptPcts(results, boards_data, c).n >= 3

\* concept_heat.get(c, 0)
HeatOf(results, boards_data, c) ==
    IF HasHeat(results, boards_data, c)
    THEN ConceptPcts(results, boards_data, c)
    ELSE [s |-> 0, n |-> 1]

\* h > k and h < k for a mean h and a threshold k in tenths of a percent
HeatGt(h, k) == h.s > k * h.n

HeatLt(h, k) == h.s < k * h.n

Heats(results, boards_data, concepts) ==
    {HeatOf(results, boards_data, c) : c \in concepts}

\* max(heats)
MaxHeat(heats) == CHOOSE h \in heats : \A g \in heats : g.s * h.n <= h.s * g.n

\* A count of the tags that moved by more than 1% either way
HotCountEitherWay(results, boards_data, concepts) ==
    Cardinality({c \in concepts :
                   \/ HeatGt(HeatOf(results, boards_data, c), 10)
                   \/ HeatLt(HeatOf(results, boards_data, c), -10)})

\* sum(1 for h in heats if h > 1.0)
HotCount(results, boards_data, concepts) ==
    Cardinality({c \in concepts : HeatGt(HeatOf(results, boards_data, c), 10)})

HeatTier(max_heat) ==
    IF HeatGt(max_heat, 30) THEN Fire(6, "sector_hot")
    ELSE IF HeatGt(max_heat, 10) THEN Fire(3, "sector_active")
    ELSE IF HeatGt(max_heat, 5) THEN Fire(1, "sector_warm")
    ELSE IF HeatLt(max_heat, -30) THEN Fire(-6, "sector_bleak")
    ELSE IF HeatLt(max_heat, -10) THEN Fire(-3, "sector_cold")
    ELSE Skip

\* A bonus without its upper tier
HeatBonusFlat(hot_count) ==
    IF hot_count >= 2 THEN Fire(2, "hot_concepts_2") ELSE Skip

HeatBonus(hot_count) ==
    IF hot_count >= 3 THEN Fire(4, "hot_concepts_3")
    ELSE IF hot_count >= 2 THEN Fire(2, "hot_concepts_2")
    ELSE Skip

HeatRules(results, boards_data, concepts) ==
    << HeatTier(MaxHeat(Heats(results, boards_data, concepts))),
       HeatBonus(HotCount(results, boards_data, concepts)) >>

\* The heat pass classifying with the boundaries of evaluate_single
ClassifyHeat65(total) ==
    IF total >= 65 THEN "strong_buy"
    ELSE IF total >= 30 THEN "buy"
    ELSE IF total <= -45 THEN "strong_sell"
    ELSE IF total <= -15 THEN "sell"
    ELSE "hold"

ClassifyHeat(total) ==
    IF total >= 60 THEN "strong_buy"
    ELSE IF total >= 30 THEN "buy"
    ELSE IF total <= -40 THEN "strong_sell"
    ELSE IF total <= -15 THEN "sell"
    ELSE "hold"

\* A pass that stores the heat score and leaves the total alone
HeatOneNoAdd(results, boards_data, r) ==
    LET concepts == boards_data[r.code]
        rules == HeatRules(results, boards_data, concepts)
        heat_score == Clamp(-10, 10, SumPts(rules))
    IN  IF concepts = {} THEN r
        ELSE [r EXCEPT !.heat_score = heat_score,
                       !.heat_signals = CatSigs(rules),
                       !.action = ClassifyHeat(r.total_score)]

\* A pass that recomputes the total from the seven scores of evaluate_single
HeatOneIdem(results, boards_data, r) ==
    LET concepts == boards_data[r.code]
        rules == HeatRules(results, boards_data, concepts)
        heat_score == Clamp(-10, 10, SumPts(rules))
        total == r.tech_score + r.val_score + r.fund_score + r.risk_score
                 + r.mom_score + r.flow_score + r.news_score + heat_score
    IN  IF concepts = {} THEN r
        ELSE [r EXCEPT !.heat_score = heat_score,
                       !.heat_signals = CatSigs(rules),
                       !.total_score = total,
                       !.action = ClassifyHeat(total)]

\* One pass of the third loop over r.
HeatOne(results, boards_data, r) ==
    LET concepts == boards_data[r.code]
        rules == HeatRules(results, boards_data, concepts)
        heat_score == Clamp(-10, 10, SumPts(rules))
    IN  IF concepts = {} THEN r
        ELSE [r EXCEPT !.heat_score = heat_score,
                       !.heat_signals = CatSigs(rules),
                       !.total_score = @ + heat_score,
                       !.action = ClassifyHeat(r.total_score + heat_score)]

\* pctChg and the tags are not changed by the loop, so each r sees the same
\* concept_heat, computed before the loop from the whole list.
apply_sector_heat(results, boards_data) ==
    [i \in 1..Len(results) |-> HeatOne(results, boards_data, results[i])]

(***************************************************************************)
(* enrich_with_intel.  gemini_results is what gemini_analyze_candidates    *)
(* returned, as score_map: a function from the codes it names to the       *)
(* news_score of the entry (NA: the entry has no such key; NotInt: the     *)
(* JSON value is not an integer -- 8.5, "8", null).                        *)
(***************************************************************************)
NotInt == NA - 1

\* results.sort(key=total_score, reverse=True): stable
RECURSIVE InsertDesc(_, _)
InsertDesc(sorted, r) ==
    IF sorted = <<>> THEN <<r>>
    ELSE IF Head(sorted).total_score >= r.total_score
    THEN <<Head(sorted)>> \o InsertDesc(Tail(sorted), r)
    ELSE <<r>> \o sorted

RECURSIVE SortDesc(_)
SortDesc(results) ==
    IF results = <<>> THEN <<>>
    ELSE InsertDesc(SortDesc(SubSeq(results, 1, Len(results) - 1)),
                    results[Len(results)])

ClassifyIntel(total) ==
    IF total >= 65 THEN "strong_buy"
    ELSE IF total >= 30 THEN "buy"
    ELSE IF total <= -45 THEN "strong_sell"
    ELSE IF total <= -15 THEN "sell"
    ELSE "hold"

\* An update without the clamp
IntelOneUnclamped(score_map, r) ==
    IF r.code \in DOMAIN score_map
    THEN LET gr == score_map[r.code]
             new_news == IF notna(gr) THEN gr ELSE 0
             total == r.total_score - r.news_score + new_news
         IN  [r EXCEPT !.total_score = total,
                       !.news_score = new_news,
                       !.news_signals = <<"gemini_intel">>,
                       !.action = ClassifyIntel(total)]
    ELSE r

IntelOne(score_map, r) ==
    IF r.code \in DOMAIN score_map
    THEN LET gr == score_map[r.code]
             new_news == Clamp(-15, 15, IF notna(gr) THEN gr ELSE 0)
             total == r.total_score - r.news_score + new_news
         IN  [r EXCEPT !.total_score = total,
                       !.news_score = new_news,
                       !.news_signals = <<"gemini_intel">>,
                       !.action = ClassifyIntel(total)]
    ELSE r

\* max(-15, min(15, "8")) and f"{8.5:+d}" raise: the call ends in a
\* TypeError or ValueError when an entry that names a result carries a score
\* that is not an integer.
enrich_raises(results, score_map) ==
    \E k \in 1..Len(results) :
        /\ results[k].code \in DOMAIN score_map
        /\ score_map[results[k].code] = NotInt

enrich_with_intel(results, score_map) ==
    IF results = <<>> THEN results
    ELSE IF DOMAIN score_map = {} THEN SortDesc(results)
    ELSE LET sorted == SortDesc(results)
         IN  SortDesc([i \in 1..Len(sorted) |-> IntelOne(score_map, sorted[i])])

(***************************************************************************)
(* The data the program is run on.  A history is one of a few scenarios:   *)
(* the last TailLen bars, and the last two rows of the indicator frame     *)
(* (the floating-point output of calc_all_indicators, given as data).      *)
(***************************************************************************)
Kinds == {"flat", "crash", "slump", "surge", "blowoff", "rebound"}

TailRow(kind, i) ==
    CASE kind = "flat" ->
           [close |-> 1000, pctChg |-> 0, volume |-> 1000, turn |-> 10]
      [] kind = "crash" ->
           [close |-> 2100 - 40 * i, pctChg |-> -40,
            volume |-> 2200 - 50 * i, turn |-> 10]
      [] kind = "slump" ->
           [close |-> 2100 - 10 * i, pctChg |-> IF i = TailLen THEN NA ELSE -5,
            volume |-> 1000, turn |-> 10]
      [] kind = "surge" ->
           [close |-> 1000 + 50 * i, pctChg |-> 40,
            volume |-> 500 + 100 * i, turn |-> i]
      [] kind = "blowoff" ->
           IF i = TailLen
           THEN [close |-> 1080, pctChg |-> 80, volume |-> 5000, turn |-> 50]
           ELSE [close |-> 1000, pctChg |-> 0, volume |-> 1000, turn |-> 10]
      [] kind = "rebound" ->
           IF i = TailLen
           THEN [close |-> 1500 - 20 * (i - 1) + 5, pctChg |-> 8,
                 volume |-> 500, turn |-> 10]
           ELSE [close |-> 1500 - 20 * i, pctChg |-> -15,
                 volume |-> IF i >= TailLen - 2 THEN 500 ELSE 1000,
                 turn |-> 10]

TailOf(kind) == [i \in 1..TailLen |-> TailRow(kind, i)]

\* A row on which every indicator is available and no rule fires.
BaseRow(c) ==
    [close |-> c, MA5 |-> c, MA10 |-> c, MA20 |-> c, MA60 |-> c,
     DIF |-> 0, DEA |-> 0, MACD |-> 0, RSI |-> 50, K |-> 50, D |-> 50,
     J |-> 50, BOLL_UP |-> c + 100, BOLL_DN |-> c - 100, VOL_RATIO |-> 10,
     ADX |-> 20, PLUS_DI |-> 20, MINUS_DI |-> 20, WR |-> -50, CCI |-> 0,
     OBV |-> 0, OBV_MA5 |-> 0, ATR_PCT |-> 30]

\* Constant bars: no gain or loss (RSI 0/0), no range (DMI, WR, CCI 0/0),
\* bands on the close, ATR 0.
FlatRow(c) ==
    [RSI |-> NA, ADX |-> NA, PLUS_DI |-> NA, MINUS_DI |-> NA, WR |-> NA,
     CCI |-> NA, BOLL_UP |-> c, BOLL_DN |-> c, ATR_PCT |-> 0] @@ BaseRow(c)

LatestRow(kind, c) ==
    CASE kind = "flat" -> FlatRow(c)
      [] kind = "crash" ->
           [MA5 |-> c + 80, MA10 |-> c + 180, MA20 |-> c + 380,
            MA60 |-> c + 900, DIF |-> -30, DEA |-> -20, MACD |-> -20,
            RSI |-> 22, K |-> 15, D |-> 20, J |-> 5, BOLL_DN |-> c + 10,
            VOL_RATIO |-> 8, ADX |-> 40, PLUS_DI |-> 10, MINUS_DI |-> 35,
            WR |-> -95, CCI |-> -180, OBV |-> -9000, OBV_MA5 |-> -8000,
            ATR_PCT |-> 60] @@ BaseRow(c)
      [] kind = "slump" ->
           [MA5 |-> c - 30, MA10 |-> c - 20, MA20 |-> c - 10, MA60 |-> c,
            DIF |-> -3, DEA |-> 0, MACD |-> -6, RSI |-> 75, K |-> 80,
            D |-> 85, J |-> 90, BOLL_UP |-> c, VOL_RATIO |-> 25,
            ADX |-> 30, PLUS_DI |-> 10, MINUS_DI |-> 30, WR |-> -10,
            CCI |-> 150, OBV |-> -500, OBV_MA5 |-> 0] @@ BaseRow(c)
      [] kind = "surge" ->
           [MA5 |-> c - 10, MA10 |-> c - 20, MA20 |-> c - 30,
            MA60 |-> c - 40, DIF |-> 5, DEA |-> 0, MACD |-> 10, RSI |-> 25,
            K |-> 15, D |-> 12, J |-> 10, BOLL_DN |-> c, VOL_RATIO |-> 25,
            ADX |-> 30, PLUS_DI |-> 30, MINUS_DI |-> 10, WR |-> -90,
            CCI |-> -150, OBV |-> 500, OBV_MA5 |-> 0, ATR_PCT |-> 15]
           @@ BaseRow(c)
      [] kind = "blowoff" ->
           [MA5 |-> c - 60, MA10 |-> c - 70, MA20 |-> c - 75,
            MA60 |-> c - 70, RSI |-> 65, VOL_RATIO |-> 42, ATR_PCT |-> 25]
           @@ BaseRow(c)
      [] kind = "rebound" ->
           [MA5 |-> c + 30, MA10 |-> c + 90, MA20 |-> c + 190,
            MA60 |-> c + 500, RSI |-> 35, K |-> 30, D |-> 28, J |-> 34,
            VOL_RATIO |-> 2, ATR_PCT |-> 18] @@ BaseRow(c)

PrevRow(kind, c) ==
    CASE kind = "flat" -> FlatRow(c)
      [] kind = "crash" ->
           [DIF |-> -20, DEA |-> -20, MACD |-> 0, K |-> 25, D |-> 24]
           @@ BaseRow(c)
      [] kind = "slump" ->
           [DIF |-> 1, DEA |-> 0, MACD |-> 2, K |-> 88, D |-> 86]
           @@ BaseRow(c)
      [] kind = "surge" ->
           [DIF |-> -1, DEA |-> 0, MACD |-> -2, K |-> 10, D |-> 11]
           @@ BaseRow(c)
      [] kind = "blowoff" ->
           [MA5 |-> c - 5, MA10 |-> c] @@ BaseRow(c)
      [] kind = "rebound" ->
           [K |-> 25, D |-> 27] @@ BaseRow(c)

\* The valuation ratios of the latest bar.
Valuations ==
    [ none |-> [peTTM |-> NA, pbMRQ |-> NA, psTTM |-> NA],
      cheap |-> [peTTM |-> 120, pbMRQ |-> 8, psTTM |-> 15],
      dear |-> [peTTM |-> 600, pbMRQ |-> 60, psTTM |-> 120],
      loss |-> [peTTM |-> -50, pbMRQ |-> 15, psTTM |-> 70] ]

\* The status flags of the latest bar.
Flags ==
    [ normal |-> [isST |-> Cell(0, "int64"), tradestatus |-> Cell(1, "int64")],
      st |-> [isST |-> Cell(1, "int64"), tradestatus |-> Cell(1, "int64")],
      st_halted |-> [isST |-> Cell(1, "int64"),
                     tradestatus |-> Cell(0, "int64")] ]

\* load_daily_data + calc_all_indicators on the file an input describes
DailyOf(in) ==
    [exists |-> in.len > 0,
     df |-> [len |-> in.len, hasPct |-> in.hasPct, hasTurn |-> TRUE,
             tail |-> TailOf(in.kind),
             latest |-> Valuations[in.val] @@ Flags[in.flags]
                        @@ LatestRow(in.kind, TailRow(in.kind, TailLen).close),
             prev |-> PrevRow(in.kind, TailRow(in.kind, TailLen - 1).close)]]

FinRow(type, date, roe, gpm, rev, ni) ==
    [data_type |-> type, statDate |-> date, roeAvg |-> roe, gpMargin |-> gpm,
     YOYEquity |-> rev, YOYNI |-> ni]

FinCols == {"data_type", "statDate", "roeAvg", "gpMargin", "YOYEquity", "YOYNI"}

\* load_finance_data
Finances ==
    [ none |-> [exists |-> FALSE, cols |-> {}, rows |-> <<>>],
      good |-> [exists |-> TRUE, cols |-> FinCols,
                rows |-> << FinRow("profit", 3, -5, 5, NA, NA),
                            FinRow("growth", 3, NA, NA, -15, -25),
                            FinRow("profit", 4, 20, 55, NA, NA),
                            FinRow("growth", 4, NA, NA, 35, 40) >>],
      bad |-> [exists |-> TRUE, cols |-> FinCols,
               rows |-> << FinRow("profit", 4, -5, 5, NA, NA),
                           FinRow("growth", 4, NA, NA, -15, -25),
                           FinRow("profit", 3, 20, 55, NA, NA) >>],
      partial |-> [exists |-> TRUE,
                   cols |-> {"data_type", "statDate", "roeAvg", "gpMargin"},
                   rows |-> << FinRow("profit", 4, NA, 35, NA, NA),
                               FinRow("profit", 3, 20, 55, NA, NA) >>] ]

FlowRow(net, pct) == [main_net |-> net, main_pct |-> pct]

\* fetch_capital_flow
Flows ==
    [ none |-> [isNone |-> TRUE, rows |-> <<>>],
      empty |-> [isNone |-> FALSE, rows |-> <<>>],
      two |-> [isNone |-> FALSE,
               rows |-> << FlowRow(3000, 20), FlowRow(3000, 20) >>],
      inflow |-> [isNone |-> FALSE,
                  rows |-> << FlowRow(2500, 10), FlowRow(2500, 12),
                              FlowRow(2500, 20) >>],
      outflow |-> [isNone |-> FALSE,
                   rows |-> << FlowRow(800, 4), FlowRow(-3000, -10),
                               FlowRow(-2000, -12), FlowRow(-1500, -18) >>],
      mixed |-> [isNone |-> FALSE,
                 rows |-> << FlowRow(-500, -3), FlowRow(900, 4),
                             FlowRow(-200, -1), FlowRow(700, 6),
                             FlowRow(600, 6) >>] ]

NewsRow(title, time, weight) ==
    [title |-> title, time |-> time, weight |-> weight]

\* fetch_news
NewsSets ==
    [ none |-> <<>>,
      good |-> << NewsRow({"bid_won"}, 3, 10),
                  NewsRow({"strategic_pact", "cooperation"}, 2, 8) >>,
      bad |-> << NewsRow({"loss_forecast", "loss"}, 3, 10),
                 NewsRow({"lawsuit", "share_sale"}, 1, 6),
                 NewsRow({"lawsuit"}, 3, 10) >>,
      mild |-> << NewsRow({"limit_up"}, 1, 6), NewsRow({}, 2, 8) >> ]

\* The sentiment provider: not configured, failing, answering.
Geminis ==
    [ nokey |-> [key |-> FALSE, ok |-> FALSE, score |-> NA],
      error |-> [key |-> TRUE, ok |-> FALSE, score |-> NA],
      high |-> [key |-> TRUE, ok |-> TRUE, score |-> 20],
      low |-> [key |-> TRUE, ok |-> TRUE, score |-> -7],
      noscore |-> [key |-> TRUE, ok |-> TRUE, score |-> NA] ]

\* evaluate_single on the data an input describes
Evaluate(code, in) ==
    evaluate_single(code, DailyOf(in), Finances[in.fin], Flows[in.flow],
                    NewsSets[in.news], Geminis[in.gemini])

(***************************************************************************)
(* main as a state machine.                                                *)
(***************************************************************************)
NCodes == 3

MaxHeatCalls == 2

Codes == 1..NCodes

Input(file, kind, hasPct, val, flags, fin, flow, news, gemini) ==
    [file |-> file, len |-> CASE file = "absent" -> 0
                              [] file = "short" -> MIN_ROWS - 1
                              [] file = "full" -> MIN_ROWS,
     kind |-> kind, hasPct |-> hasPct, val |-> val, flags |-> flags,
     fin |-> fin, flow |-> flow, news |-> news, gemini |-> gemini]

NoInput ==
    Input("absent", "flat", TRUE, "none", "normal", "none", "none", "none",
          "nokey")

\* What --code can be run on: no file, a short file, a file written before
\* pctChg was downloaded, and full files with every combination of the
\* collaborators' data.
SingleInputs ==
    { Input("absent", "flat", TRUE, "none", "normal", "none", f, n, "nokey") :
          f \in {"none", "inflow"}, n \in {"none", "good"} }
    \cup
    { Input("short", k, TRUE, "cheap", "normal", "good", f, "good", g) :
          k \in Kinds, f \in {"none", "inflow"}, g \in {"nokey", "high"} }
    \cup
    { Input("full", k, FALSE, "none", "normal", "none", f, "none", "nokey") :
          k \in Kinds, f \in DOMAIN Flows }
    \cup
    { Input("full", k, TRUE, v, fl, fi, f, "none", "high") :
          k \in Kinds, v \in DOMAIN Valuations, fl \in DOMAIN Flags,
          fi \in DOMAIN Finances, f \in DOMAIN Flows }
    \cup
    { Input("full", k, TRUE, v, "normal", fi, "none", n, g) :
          k \in Kinds, v \in {"none", "cheap"}, fi \in {"none", "bad"},
          n \in DOMAIN NewsSets \ {"none"}, g \in DOMAIN Geminis }

\* A batch run evaluates without news (news_data is not passed).
BatchInput(file, kind, hasPct, val, fin, flow) ==
    Input(file, kind, hasPct, val, "normal", fin, flow, "none", "nokey")

\* The data directory and board table of a batch run: per code, the files
\* and the concept tags.
BatchFiles ==
    << [in |-> BatchInput("short", "flat", TRUE, "none", "none", "none"),
        tags |-> {"A"}],
       [in |-> BatchInput("absent", "flat", TRUE, "none", "none", "none"),
        tags |-> {"B"}],
       [in |-> BatchInput("full", "crash", FALSE, "none", "none", "none"),
        tags |-> {"A"}],
       [in |-> BatchInput("full", "crash", TRUE, "none", "none", "none"),
        tags |-> {"A"}],
       [in |-> BatchInput("full", "crash", TRUE, "none", "none", "two"),
        tags |-> {"A", "B"}],
       [in |-> BatchInput("full", "slump", TRUE, "none", "none", "outflow"),
        tags |-> {}],
       [in |-> BatchInput("full", "slump", TRUE, "none", "none", "outflow"),
        tags |-> {"A"}],
       [in |-> BatchInput("full", "surge", TRUE, "none", "none", "inflow"),
        tags |-> {}],
       [in |-> BatchInput("full", "surge", TRUE, "none", "partial", "none"),
        tags |-> {"A"}],
       [in |-> BatchInput("full", "surge", TRUE, "none", "none", "empty"),
        tags |-> {"A", "B", "C"}],
       [in |-> BatchInput("full", "blowoff", TRUE, "cheap", "good", "none"),
        tags |-> {"B", "C"}],
       [in |-> BatchInput("full", "flat", TRUE, "none", "none", "none"),
        tags |-> {"C"}],
       [in |-> BatchInput("full", "rebound", TRUE, "dear", "bad", "none"),
        tags |-> {"A", "B"}] >>

\* gemini_analyze_candidates names any of the candidates, with a news_score
\* that is out of range, in range, or missing from the entry
IntelScores == {-20, 9, NA, NotInt}

VARIABLES args, files, pc, i, results, last, log, boards_cache

vars == <<args, files, pc, i, results, last, log, boards_cache>>

\* load_boards()[code]["concept"]
boards == [c \in Codes |-> BatchFiles[files[c]].tags]

\* boards.get(code, {}) of a code without a row in the board files
NoBoards == [industry |-> "-", concept |-> {}]

\* _boards_cache = {}: a mapping without any code
EmptyBoards == [c \in Codes |-> NoBoards]

\* A load_boards that reads the files on every call
load_boards_unmemoized(cache, disk) == disk

\* load_boards: the mapping it returns and leaves in _boards_cache. The
\* files are read when the cache is empty (`if _boards_cache:` is false
\* of a mapping without codes, also of one loaded from empty files).
load_boards(cache, disk) == IF cache # EmptyBoards THEN cache ELSE disk

get_stock_boards(mapping, code) == mapping[code]

\* The board files of a run of main: concept tags, no industry rows.
BoardFiles == [c \in Codes |-> [industry |-> "-", concept |-> boards[c]]]

Pending == [kind |-> "pending", calls |-> <<>>]

Init ==
    /\ args \in [mode : {"code", "batch", "concept"}]
    /\ files \in [Codes -> 1..Len(BatchFiles)]
    /\ \A c \in Codes : c + 1 \in Codes => files[c] <= files[c + 1]
    /\ args.mode = "code" => \A c \in Codes : files[c] = 1
    /\ pc = "start"
    /\ i = 1
    /\ results = <<>>
    /\ last = [in |-> NoInput, out |-> Pending]
    /\ log = <<>>
    /\ boards_cache = EmptyBoards

\* main: --code
MainSingle ==
    /\ pc = "start" /\ args.mode = "code"
    /\ \E in \in SingleInputs :
         LET out == Evaluate(1, in)
         IN  /\ last' = [in |-> in, out |-> out]
             /\ pc' = IF out.kind = "raise" THEN "crashed" ELSE "done"
             /\ boards_cache' = IF out.kind = "result"
                                THEN load_boards(boards_cache, BoardFiles)
                                ELSE boards_cache
    /\ log' = Append(log, "evaluate")
    /\ UNCHANGED <<args, files, i, results>>

\* main: the batch loop starts
MainBatch ==
    /\ pc = "start" /\ args.mode # "code"
    /\ pc' = "eval"
    /\ UNCHANGED <<args, files, i, results, last, log, boards_cache>>

\* main: one iteration of the evaluation loop
EvaluateNext ==
    /\ pc = "eval" /\ i <= NCodes
    /\ LET in == BatchFiles[files[i]].in
           out == Evaluate(i, in)
       IN  /\ last' = [in |-> in, out |-> out]
           /\ pc' = IF out.kind = "raise" THEN "crashed" ELSE pc
           /\ results' = IF out.kind = "result"
                         THEN Append(results, out.r) ELSE results
           /\ boards_cache' = IF out.kind = "result"
                              THEN load_boards(boards_cache, BoardFiles)
                              ELSE boards_cache
    /\ i' = i + 1
    /\ log' = Append(log, "evaluate")
    /\ UNCHANGED <<args, files>>

\* main: if not results: return
NoResults ==
    /\ pc = "eval" /\ i > NCodes /\ results = <<>>
    /\ pc' = "done"
    /\ UNCHANGED <<args, files, i, results, last, log, boards_cache>>

\* A heat pass scheduled inside the evaluation loop
ApplyHeatEarly ==
    /\ pc = "eval" /\ i > 1 /\ results # <<>>
    /\ results' = apply_sector_heat(results, boards)
    /\ boards_cache' = load_boards(boards_cache, BoardFiles)
    /\ pc' = "heated"
    /\ log' = Append(log, "heat")
    /\ UNCHANGED <<args, files, i, last>>

\* main: _apply_sector_heat(results)
ApplyHeat ==
    /\ pc = "eval" /\ i > NCodes /\ results # <<>>
    /\ results' = apply_sector_heat(results, boards)
    /\ boards_cache' = load_boards(boards_cache, BoardFiles)
    /\ pc' = "heated"
    /\ log' = Append(log, "heat")
    /\ UNCHANGED <<args, files, i, last>>

\* main: enrich_with_intel(results, active_concepts)
Enrich ==
    /\ pc = "heated" /\ args.mode = "concept"
    /\ \E named \in SUBSET {results[k].code : k \in 1..Len(results)} :
         \E news_score \in IntelScores :
           LET score_map == [c \in named |-> news_score]
           IN  /\ results' = IF enrich_raises(results, score_map)
                             THEN SortDesc(results)
                             ELSE enrich_with_intel(results, score_map)
               /\ pc' = IF enrich_raises(results, score_map)
                        THEN "enrich_failed" ELSE "enriched"
               /\ last' = [in |-> last.in, out |-> last.out,
                           intel |-> score_map]
    /\ log' = Append(log, "enrich")
    /\ UNCHANGED <<args, files, i, boards_cache>>

\* main: _run_concept_filter(results, ...) ranks by an alpha of its own
ConceptFilter ==
    /\ pc = "enriched"
    /\ pc' = "done"
    /\ log' = Append(log, "rank")
    /\ UNCHANGED <<args, files, i, results, last, boards_cache>>

\* main: results.sort(...) and the two lists
Rank ==
    /\ pc = "heated" /\ args.mode = "batch"
    /\ results' = SortDesc(results)
    /\ pc' = "done"
    /\ log' = Append(log, "rank")
    /\ UNCHANGED <<args, files, i, last, boards_cache>>

Next ==
    \/ MainSingle
    \/ MainBatch
    \/ EvaluateNext
    \/ NoResults
    \/ ApplyHeat
    \/ Enrich
    \/ ConceptFilter
    \/ Rank

Spec == Init /\ [][Next]_vars

HeatCalls == Len(SelectSeq(log, LAMBDA e : e = "heat"))

\* A caller that runs _apply_sector_heat again on the list it already
\* passed through it.
HeatAgain ==
    /\ pc = "heated" /\ HeatCalls < MaxHeatCalls
    /\ results' = apply_sector_heat(results, boards)
    /\ boards_cache' = load_boards(boards_cache, BoardFiles)
    /\ log' = Append(log, "heat")
    /\ UNCHANGED <<args, files, pc, i, last>>

NextTwice ==
    \/ Next
    \/ HeatAgain

SpecTwice == Init /\ [][NextTwice]_vars

(***************************************************************************)
(* Properties.                                                             *)
(***************************************************************************)
\* The call evaluate_single(...) most recently made returned a result.
Returned == last.out.kind = "result"

ResultIdx == 1..Len(results)

Sum8(r) ==
    r.tech_score + r.val_score + r.fund_score + r.risk_score + r.mom_score
    + r.flow_score + r.news_score + r.heat_score

InIntervals(r) ==
    /\ r.tech_score \in -40..40
    /\ r.val_score \in -25..25
    /\ r.fund_score \in -25..25
    /\ r.risk_score \in 0..10
    /\ r.mom_score \in -15..15
    /\ r.flow_score \in -15..15
    /\ r.news_score \in -15..15
    /\ r.heat_score \in -10..10

\* C1: every dimension score of every result lies in its closed interval:
\* technical [-40,40], valuation [-25,25], fundamental [-25,25], risk
\* [0,10], momentum [-15,15], capital flow [-15,15], news [-15,15] and,
\* after the heat pass, sector heat [-10,10].
C1_ScoresInIntervals ==
    /\ Returned => InIntervals(last.out.r)
    /\ \A k \in ResultIdx : InIntervals(results[k])

\* A special-treatment, halted instrument: penalties of 15 on a base of 10.
C1_Witness ==
    /\ Returned
    /\ last.in.flags = "st_halted"
    /\ last.out.r.risk_score = 0
    /\ last.out.r.tech_score = 40

\* C2: for an absent history or one of fewer than 60 rows, evaluate_single
\* returns None and has run no scorer.
C2_ShortHistoryNone ==
    (/\ last.out.kind # "pending"
     /\ \/ ~DailyOf(last.in).exists
        \/ DailyOf(last.in).df.len < 60)
    => /\ last.out.kind = "none"
       /\ last.out.calls = <<>>

\* A history of 59 rows, with fundamentals, flow records and news at hand.
C2_Witness ==
    /\ last.out.kind = "none"
    /\ DailyOf(last.in).exists
    /\ DailyOf(last.in).df.len = 59
    /\ last.in.flow = "inflow"

\* C3: right after evaluate_single, after the heat pass and after
\* enrich_with_intel, total_score is the sum of the eight stored scores.
C3_TotalIsSum ==
    /\ Returned => last.out.r.total_score = Sum8(last.out.r)
    /\ \A k \in ResultIdx : results[k].total_score = Sum8(results[k])

\* After enrichment, a result whose heat and news scores are both not 0.
C3_Witness ==
    /\ pc = "enriched"
    /\ \E k \in ResultIdx :
         /\ results[k].heat_score # 0
         /\ results[k].news_score # 0
         /\ results[k].total_score = Sum8(results[k])

\* The tiers of evaluate_single as the specification words them.
C4_Tiers(total) ==
    { t \in {"strong_buy", "buy", "hold", "sell", "strong_sell"} :
        \/ t = "strong_buy" /\ total >= 65
        \/ t = "buy" /\ 30 <= total /\ total < 65
        \/ t = "hold" /\ -15 < total /\ total < 30
        \/ t = "sell" /\ -45 < total /\ total <= -15
        \/ t = "strong_sell" /\ total <= -45 }

\* C4: evaluate_single maps the total to exactly one tier: >= 65 strong
\* buy, [30, 65) buy, (-15, 30) hold, (-45, -15] sell, <= -45 strong sell.
C4_EvaluateTier ==
    Returned => C4_Tiers(last.out.r.total_score) = {last.out.r.action}

\* A total on the strong-buy boundary.
C4_Witness ==
    /\ Returned
    /\ last.out.r.total_score = 65
    /\ last.out.r.action = "strong_buy"

\* The tiers of the heat pass as the specification words them.
C5_Tier(total) ==
    IF total >= 60 THEN "strong_buy"
    ELSE IF total >= 30 THEN "buy"
    ELSE IF total <= -40 THEN "strong_sell"
    ELSE IF total <= -15 THEN "sell"
    ELSE "hold"

\* Right after the single heat pass of main.
AfterHeat == pc = "heated" /\ HeatCalls = 1

\* C5: after the heat pass, every instrument with at least one concept tag
\* is classified by its heat-adjusted total under 60/30/-15/-40; an
\* instrument without tags keeps the tier evaluate_single gave it.
C5_HeatTierTagged ==
    AfterHeat =>
        \A k \in ResultIdx :
            IF boards[results[k].code] # {}
            THEN results[k].action = C5_Tier(results[k].total_score)
            ELSE C4_Tiers(results[k].total_score) = {results[k].action}

\* A tagged instrument whose adjusted total lies between the two sets of
\* boundaries.
C5_Witness ==
    /\ AfterHeat
    /\ \E k \in ResultIdx :
         /\ boards[results[k].code] # {}
         /\ results[k].total_score \in 60..64
         /\ results[k].heat_score # 0
         /\ results[k].action = "strong_buy"

\* C5 as stated: after the heat pass every instrument of the batch is
\* classified under 60/30/-15/-40.
C5_HeatTierAll ==
    AfterHeat =>
        \A k \in ResultIdx : results[k].action = C5_Tier(results[k].total_score)

\* C6: a second heat pass over the same list adds each heat score to its
\* total again and only overwrites heat_score, so every total with a heat
\* score other than 0 changes.
C6_NotIdempotent ==
    [][ (HeatCalls >= 1 /\ log' = Append(log, "heat")) =>
          /\ Len(results') = Len(results)
          /\ \A k \in ResultIdx :
               /\ results'[k].heat_score = results[k].heat_score
               /\ results'[k].total_score
                    = results[k].total_score + results[k].heat_score
               /\ results[k].heat_score # 0
                    => results'[k].total_score # results[k].total_score ]_vars

\* After the second pass: a heat score counted twice in the total.
C6_Witness ==
    /\ HeatCalls = 2
    /\ \E k \in ResultIdx :
         /\ results[k].heat_score # 0
         /\ results[k].total_score
              = Sum8(results[k]) + results[k].heat_score

Before(a, b) ==
    \A j \in 1..Len(log) : log[j] = b => \E m \in 1..(j - 1) : log[m] = a

\* C7: in a batch run the heat pass is invoked at most once, only when the
\* evaluation loop has gone through every code, with no evaluation after
\* it, and before enrichment and ranking; a run that reaches enrichment or
\* ranking has invoked it exactly once, a run whose evaluations yield no
\* result or fail ends without invoking it.
C7_HeatOnceAfterLoop ==
    args.mode # "code" =>
        /\ HeatCalls <= 1
        /\ \A j \in 1..Len(log) :
             log[j] = "heat" =>
                 /\ j = NCodes + 1
                 /\ \A m \in 1..Len(log) : log[m] = "evaluate" <=> m < j
        /\ Before("heat", "enrich")
        /\ Before("heat", "rank")
        /\ pc = "done" => (HeatCalls = 1 <=> results # <<>>)
        /\ pc = "crashed" => HeatCalls = 0

\* A finished --concept run.
C7_Witness ==
    /\ args.mode = "concept"
    /\ pc = "done"
    /\ log = [j \in 1..(NCodes + 3) |->
                IF j <= NCodes THEN "evaluate"
                ELSE IF j = NCodes + 1 THEN "heat"
                ELSE IF j = NCodes + 2 THEN "enrich" ELSE "rank"]

\* C7 as stated: every batch run that ends has invoked the heat pass
\* exactly once.
C7_HeatExactlyOnce ==
    (args.mode # "code" /\ pc = "done") => HeatCalls = 1

\* The tags of a code that at least 3 instruments of the batch carry.
ValuedTags == [c \in Codes |-> {t \in boards[c] : HasHeat(results, boards, t)}]

\* C8: a tag carried by fewer than 3 instruments has no heat value and
\* influences no heat score: every heat score is the one the instrument
\* gets from its tags of at least 3 carriers alone.
C8_UnvaluedTagsIgnored ==
    AfterHeat =>
        \A k \in ResultIdx :
            LET valued == ValuedTags[results[k].code]
            IN  results[k].heat_score
                  = IF valued = {} THEN 0
                    ELSE Clamp(-10, 10,
                               SumPts(HeatRules(results, boards, valued)))

\* The tier and the bonus as the specification words them, in tenths of 1%.
C9_T(max_heat) ==
    IF max_heat.s > 30 * max_heat.n THEN 6
    ELSE IF max_heat.s > 10 * max_heat.n THEN 3
    ELSE IF max_heat.s > 5 * max_heat.n THEN 1
    ELSE IF max_heat.s < -30 * max_heat.n THEN -6
    ELSE IF max_heat.s < -10 * max_heat.n THEN -3
    ELSE 0

C9_B(hot_count) == IF hot_count >= 3 THEN 4 ELSE IF hot_count >= 2 THEN 2 ELSE 0

\* C9: for every instrument with a tag, the heat score is T + B clamped to
\* [-10,10], with T from the max-heat and B from the hot-tag count; it is
\* added to the total and stored.
C9_HeatScore ==
    AfterHeat =>
        \A k \in ResultIdx :
            LET r == results[k]
                concepts == boards[r.code]
                T == C9_T(MaxHeat(Heats(results, boards, concepts)))
                B == C9_B(HotCount(results, boards, concepts))
            IN  concepts # {} =>
                    /\ r.heat_score = Max2(-10, Min2(10, T + B))
                    /\ r.total_score = Sum8(r)

\* Three hot tags: the top tier and the top bonus.
C9_Witness ==
    /\ AfterHeat
    /\ \E k \in ResultIdx :
         /\ Cardinality(boards[results[k].code]) = 3
         /\ results[k].heat_score = 10

\* C10: with a history of at least 60 rows evaluate_single returns a
\* result, whatever other data is missing.
C10_AlwaysResult ==
    (/\ last.out.kind # "pending"
     /\ DailyOf(last.in).exists
     /\ DailyOf(last.in).df.len >= 60)
    => /\ Returned
       /\ last.out.calls = Scorers

(***************************************************************************)
(* Rule gating.                                                            *)
(***************************************************************************)
\* TRUE iff one of the names is among the signals.
HasSignal(signals, names) == \E k \in 1..Len(signals) : signals[k] \in names

\* The rules of score_technical and score_risk that read one indicator of
\* the latest bar each, with the signals they append.
GatedRules ==
    { [col |-> "RSI", of |-> "tech_signals",
       sigs |-> {"rsi_oversold", "rsi_low", "rsi_overbought", "rsi_high"}],
      [col |-> "BOLL_DN", of |-> "tech_signals",
       sigs |-> {"boll_lower", "boll_upper"}],
      [col |-> "ADX", of |-> "tech_signals", sigs |-> {"adx_up", "adx_down"}],
      [col |-> "WR", of |-> "tech_signals",
       sigs |-> {"wr_oversold", "wr_overbought"}],
      [col |-> "CCI", of |-> "tech_signals",
       sigs |-> {"cci_oversold", "cci_overbought"}],
      [col |-> "ATR_PCT", of |-> "tech_signals", sigs |-> {"low_vol"}],
      [col |-> "ATR_PCT", of |-> "risk_signals", sigs |-> {"high_vol"}],
      [col |-> "VOL_RATIO", of |-> "risk_signals", sigs |-> {"illiquid"}] }

\* C11: in every dimension scorer a rule fires only when the values it reads
\* are available, and a missing value is never replaced by a default number
\* that is compared with the thresholds: a rule of the technical or risk
\* scorer whose indicator is missing leaves no signal, and the heat signals
\* of an instrument are those of its tags that have a heat value (no signal
\* when none has one).
C11_RulesGated ==
    /\ Returned =>
         \A g \in GatedRules :
             ~notna(DailyOf(last.in).df.latest[g.col])
                 => ~HasSignal(last.out.r[g.of], g.sigs)
    /\ AfterHeat =>
         \A k \in ResultIdx :
             LET valued == ValuedTags[results[k].code]
             IN  results[k].heat_signals
                   = IF valued = {} THEN <<>>
                     ELSE CatSigs(HeatRules(results, boards, valued))

(***************************************************************************)
(* The dimension scorers called on their own: one call of one scorer with  *)
(* arguments of the caller's choice.                                       *)
(***************************************************************************)
\* Lengths of the histories the scorers are called with.
ScorerLens == {0, 1, 19, 20, 21, MIN_ROWS - 1, MIN_ROWS}

\* A loaded history of len rows; df.tail holds its last rows.
HistoryOf(kind, len, hasPct) ==
    LET df == DailyOf(Input("full", kind, hasPct, "none", "normal", "none",
                            "none", "none", "nokey")).df
    IN  [df EXCEPT !.len = len, !.tail = LastK(df.tail, Min2(len, TailLen))]

Histories ==
    {HistoryOf(kind, len, hasPct) :
        kind \in Kinds, len \in ScorerLens, hasPct \in BOOLEAN}

Returns(v) == [raised |-> FALSE, v |-> v]

Raises == [raised |-> TRUE, v |-> Neutral]

InitScorers ==
    /\ args = [mode |-> "scorer"]
    /\ files = <<>>
    /\ pc = "start"
    /\ i = 0
    /\ results = <<>>
    /\ last = [fn |-> "none", in |-> <<>>, out |-> Raises]
    /\ log = <<>>
    /\ boards_cache = EmptyBoards

\* Flow records of three or four days by the sign of the net main inflow.
StreakFlows ==
    LET nets == {-2000, 0, 2000}
        day(n) == FlowRow(n, n \div 400)
    IN  { [isNone |-> FALSE, rows |-> <<day(a), day(b), day(c)>>] :
            a \in nets, b \in nets, c \in nets }
        \cup { [isNone |-> FALSE, rows |-> <<day(a), day(b), day(c), day(d)>>] :
                 a \in nets, b \in nets, c \in nets, d \in nets }

\* what fetch_capital_flow can return
FlowInputs == { Flows[f] : f \in DOMAIN Flows } \cup StreakFlows

\* Histories for the volume/price proxy by the ProxyDays bars of recent5: a
\* surge (huge volume, +6%), a heavy fall (huge volume, -1%), a quiet fall,
\* a quiet rise (+0.5%); before them flat or falling bars of normal volume,
\* the turnover of the last bars normal or tripled.
ProxyDays == 5

ProxyMoves == {"surge", "heavy_down", "quiet_down", "quiet_up"}

ProxyTail(moves, before, turn) ==
    [t \in 1..TailLen |->
        IF t <= TailLen - ProxyDays
        THEN [close |-> 1000, pctChg |-> before, volume |-> 1000, turn |-> 10]
        ELSE LET m == moves[t - (TailLen - ProxyDays)]
             IN  [close |-> 1000,
                  pctChg |-> CASE m = "surge" -> 60
                               [] m = "quiet_up" -> 5
                               [] OTHER -> -10,
                  volume |-> IF m \in {"surge", "heavy_down"}
                             THEN 20000 ELSE 500,
                  turn |-> turn]]

ProxyHistories ==
    { [HistoryOf("flat", TailLen, hasPct) EXCEPT
          !.tail = ProxyTail(moves, before, turn)] :
        moves \in [1..ProxyDays -> ProxyMoves], before \in {0, -20},
        turn \in {10, 30}, hasPct \in BOOLEAN }

CallFlow ==
    /\ pc = "start"
    /\ \E call \in (Histories \X FlowInputs)
                   \cup (ProxyHistories \X {Flows.none}) :
         LET df == call[1]
             flow_data == call[2]
         IN  last' = [fn |-> "score_flow",
                      in |-> [df |-> df, flow_data |-> flow_data],
                      out |-> IF score_flow_raises(df, flow_data) THEN Raises
                              ELSE Returns(score_flow(df, flow_data))]
    /\ pc' = "called"
    /\ UNCHANGED <<args, files, i, results, log, boards_cache>>

\* Histories by the last StreakDays bars: each falls, stands still or rises
\* by one percent, or falls with an empty pctChg cell.
StreakDays == 6

StreakMoves == {"down", "flat", "up", "nan"}

RECURSIVE StreakClose(_, _)
StreakClose(moves, k) ==
    IF k = 0 THEN 1000
    ELSE StreakClose(moves, k - 1)
         + (CASE moves[k] = "up" -> 10 [] moves[k] = "flat" -> 0 [] OTHER -> -10)

StreakTail(moves) ==
    [t \in 1..TailLen |->
        IF t <= TailLen - StreakDays
        THEN [close |-> 1000, pctChg |-> 0, volume |-> 1000, turn |-> 10]
        ELSE LET k == t - (TailLen - StreakDays)
             IN  [close |-> StreakClose(moves, k),
                  pctChg |-> CASE moves[k] = "up" -> 10
                               [] moves[k] = "flat" -> 0
                               [] moves[k] = "down" -> -10
                               [] OTHER -> NA,
                  volume |-> 1000, turn |-> 10]]

StreakHistories ==
    { [HistoryOf("flat", len, hasPct) EXCEPT
          !.tail = LastK(StreakTail(moves), Min2(len, TailLen))] :
        moves \in [1..StreakDays -> StreakMoves], len \in {20, 21},
        hasPct \in BOOLEAN }

CallMomentum ==
    /\ pc = "start"
    /\ \E df \in Histories \cup StreakHistories :
         last' = [fn |-> "score_momentum", in |-> [df |-> df],
                  out |-> Returns(score_momentum(df))]
    /\ pc' = "called"
    /\ UNCHANGED <<args, files, i, results, log, boards_cache>>

Called(fn) == pc = "called" /\ last.fn = fn

\* The signals of the two paths of score_flow.
PathASignals ==
    {"main_inflow_large", "main_inflow", "main_outflow_large", "main_outflow",
     "inflow_streak_3", "inflow_streak_2", "outflow_streak_3", "share_high",
     "share_positive", "share_very_negative", "share_negative", "summary_3",
     "summary_5", "summary_10"}

PathBSignals ==
    {"vol_up_days_3", "vol_up_days_2", "quiet_stabilize", "turnover_accel",
     "turnover_warm", "blow_off_top", "quiet_decline"}

\* The number of flow records supplied.
Supplied(flow_data) == IF flow_data.isNone THEN 0 ELSE Len(flow_data.rows)

\* C12: score_flow uses Path A when 3 or more flow records are supplied: the
\* result is the clamped sum of the Path A rules with their signals and has
\* no Path B signal; with fewer than 3 records (none, an empty list, exactly
\* 2) it uses Path B: a result has no Path A signal.
C12_ExactlyOnePath ==
    (Called("score_flow") /\ ~last.out.raised) =>
        LET flow_data == last.in.flow_data
            out == last.out.v
        IN  IF Supplied(flow_data) >= 3
            THEN /\ out.score
                      = Clamp(-15, 15, SumPts(FlowRulesA(flow_data.rows)))
                 /\ HasSignal(out.signals, PathASignals)
                 /\ ~HasSignal(out.signals, PathBSignals)
            ELSE ~HasSignal(out.signals, PathASignals)

(***************************************************************************)
(* evaluate_single called repeatedly in one process. The board files are   *)
(* read through _boards_cache, which lives as long as the process; name    *)
(* and industry of the instrument go from the mapping into the request to  *)
(* the sentiment provider.                                                 *)
(***************************************************************************)
MaxCalls == 3

\* What the board files hold at the time of a call: nothing (not downloaded
\* or removed), or an industry and a concept for every instrument.
BoardTables ==
    { EmptyBoards,
      [c \in Codes |-> [industry |-> "bank", concept |-> {"A"}]] }

\* Deterministic sentiment providers: the reply is a function of the
\* request, of which the model keeps the industry.
Providers ==
    [ plain |-> [industry \in {"-", "bank"} |-> "high"],
      sector |-> [industry \in {"-", "bank"} |->
                    IF industry = "bank" THEN "high" ELSE "low"] ]

\* The data of the instruments evaluated: with and without news.
CallInputs ==
    { Input("full", "surge", TRUE, "none", "normal", "none", "none", "good",
            "nokey"),
      Input("full", "flat", TRUE, "cheap", "normal", "good", "inflow", "none",
            "nokey"),
      Input("short", "flat", TRUE, "none", "normal", "none", "none", "good",
            "nokey") }

\* evaluate_single with its reads of the board mapping: the provider is
\* asked about boards["industry"] of the mapping load_boards returns.
evaluate_cached(code, in, provider, cache, disk) ==
    LET boards_info == get_stock_boards(load_boards(cache, disk), code)
    IN  evaluate_single(code, DailyOf(in), Finances[in.fin], Flows[in.flow],
                        NewsSets[in.news],
                        Geminis[Providers[provider][boards_info.industry]])

InitCalls ==
    /\ args \in [mode : {"calls"}, provider : DOMAIN Providers]
    /\ files = <<>>
    /\ pc = "ready"
    /\ i = 0
    /\ results = <<>>
    /\ last = [in |-> NoInput, out |-> Pending]
    /\ log = <<>>
    /\ boards_cache = EmptyBoards

\* One call evaluate_single(code) on the files as they are at that time.
CallEvaluate ==
    /\ pc = "ready" /\ i < MaxCalls
    /\ \E code \in Codes, in \in CallInputs, disk \in BoardTables :
         LET out == evaluate_cached(code, in, args.provider, boards_cache,
                                    disk)
         IN  /\ last' = [in |-> in, out |-> out]
             /\ log' = Append(log, [code |-> code, in |-> in, disk |-> disk,
                                    out |-> out])
             /\ boards_cache' = IF out.kind = "result"
                                THEN load_boards(boards_cache, disk)
                                ELSE boards_cache
    /\ i' = i + 1
    /\ UNCHANGED <<args, files, pc, results>>

NextCalls == CallEvaluate

SpecCalls == InitCalls /\ [][NextCalls]_vars

\* C13: two calls of evaluate_single with identical inputs (instrument,
\* history, fundamentals, flow data, news, board table, the same
\* deterministic provider) return identical results -- scores, signal
\* lists, total and tier -- whatever was evaluated between them.
C13_Deterministic ==
    \A j, k \in 1..Len(log) :
        (/\ log[j].code = log[k].code
         /\ log[j].in = log[k].in
         /\ log[j].disk = log[k].disk)
        => log[j].out = log[k].out

(***************************************************************************)
(* The indicator engine on bars [close, high, low, volume], prices in      *)
(* hundredths. Windows, sums, extrema and the 0/0 cases are as in pandas;  *)
(* quotients are rounded down to the unit of the column (exact whenever    *)
(* the window is constant). NaN is NA.                                     *)
(***************************************************************************)
Col(bars, col) == [t \in 1..Len(bars) |-> bars[t][col]]

RECURSIVE SumRange(_, _, _)
SumRange(xs, a, b) == IF a > b THEN 0 ELSE xs[b] + SumRange(xs, a, b - 1)

RECURSIVE MinRange(_, _, _)
MinRange(xs, a, b) ==
    IF a = b THEN xs[b] ELSE Min2(xs[b], MinRange(xs, a, b - 1))

RECURSIVE MaxRange(_, _, _)
MaxRange(xs, a, b) ==
    IF a = b THEN xs[b] ELSE Max2(xs[b], MaxRange(xs, a, b - 1))

\* x / y of two floats: 0/0 is NaN
Quot(x, y, scale) ==
    IF ~notna(x) \/ ~notna(y) THEN NA
    ELSE IF y = 0 THEN (IF x = 0 THEN NA ELSE IF x > 0 THEN 999999 ELSE -999998)
    ELSE (scale * x) \div y

Abs(x) == IF x < 0 THEN -x ELSE x

\* .rolling(window=p).mean()
RollMean(xs, t, p) ==
    IF t < p THEN NA ELSE SumRange(xs, t - p + 1, t) \div p

\* One step of .ewm(alpha=num/den, adjust=False).mean(): a NaN observation
\* is skipped.
EwmStep(y, x, num, den) ==
    IF ~notna(x) THEN y
    ELSE IF ~notna(y) THEN x
    ELSE (num * x + (den - num) * y) \div den

\* The steps for rows a..b from the average y, the two halves in turn.
RECURSIVE EwmFrom(_, _, _, _, _, _)
EwmFrom(y, xs, num, den, a, b) ==
    IF a > b THEN y
    ELSE IF a = b THEN EwmStep(y, xs[a], num, den)
    ELSE LET m == (a + b) \div 2
             left == EwmFrom(y, xs, num, den, a, m)
         IN  IF notna(left)
             THEN EwmFrom(left, xs, num, den, m + 1, b)
             ELSE EwmFrom(NA, xs, num, den, m + 1, b)

\* .ewm(alpha=num/den, adjust=False).mean() at row t
Ewm(xs, num, den, t) == EwmFrom(xs[1], xs, num, den, 2, t)

EwmAll(xs, num, den) == [t \in DOMAIN xs |-> Ewm(xs, num, den, t)]

\* The largest r with r * r <= x
Isqrt(x) == CHOOSE r \in 0..Min2(x, 4000) : r * r <= x /\ (r + 1) * (r + 1) > x

calc_ma(bars, t, p) == RollMean(Col(bars, "close"), t, p)

\* DIF, DEA and MACD at row t
calc_macd(bars, t) ==
    LET close == Col(bars, "close")
        ema_fast == EwmAll(close, 2, 13)
        ema_slow == EwmAll(close, 2, 27)
        DIF == [k \in DOMAIN close |-> ema_fast[k] - ema_slow[k]]
        DEA == Ewm(DIF, 2, 10, t)
    IN  [DIF |-> DIF[t], DEA |-> DEA, MACD |-> 2 * (DIF[t] - DEA)]

\* gain/loss in thousandths of the price unit; RSI = 100 - 100/(1 + rs).
\* The averages follow the recursion of alpha = 1/14 (the adjusted weights
\* of pandas differ from it in the first rows only).
calc_rsi(bars, t) ==
    LET close == Col(bars, "close")
        gain == [k \in DOMAIN close |->
                   IF k > 1 /\ close[k] > close[k - 1]
                   THEN 1000 * (close[k] - close[k - 1]) ELSE 0]
        loss == [k \in DOMAIN close |->
                   IF k > 1 /\ close[k] < close[k - 1]
                   THEN 1000 * (close[k - 1] - close[k]) ELSE 0]
        avg_gain == IF t < 14 THEN NA ELSE Ewm(gain, 1, 14, t)
        avg_loss == IF t < 14 THEN NA ELSE Ewm(loss, 1, 14, t)
    IN  IF ~notna(avg_gain) THEN NA
        ELSE IF avg_loss = 0 THEN (IF avg_gain = 0 THEN NA ELSE 100)
        ELSE (100 * avg_gain) \div (avg_gain + avg_loss)

\* rsv.fillna(50): rows before the window is filled and rows without range
calc_kdj(bars, t) ==
    LET rsv == [k \in 1..Len(bars) |->
                  IF k < 9 THEN 50
                  ELSE LET low_n == MinRange(Col(bars, "low"), k - 8, k)
                           high_n == MaxRange(Col(bars, "high"), k - 8, k)
                           q == Quot(bars[k].close - low_n, high_n - low_n, 100)
                       IN  IF notna(q) THEN q ELSE 50]
        K == EwmAll(rsv, 1, 3)
        D == Ewm(K, 1, 3, t)
    IN  [K |-> K[t], D |-> D, J |-> 3 * K[t] - 2 * D]

\* BOLL_MID +- 2 * std, std the sample deviation of the window
calc_boll(bars, t) ==
    IF t < 20 THEN [BOLL_UP |-> NA, BOLL_DN |-> NA]
    ELSE LET close == Col(bars, "close")
             sum == SumRange(close, t - 19, t)
             dev2 == [k \in DOMAIN close |->
                        (20 * close[k] - sum) * (20 * close[k] - sum)]
             two_std == 2 * Isqrt(SumRange(dev2, t - 19, t) \div (400 * 19))
         IN  [BOLL_UP |-> sum \div 20 + two_std,
              BOLL_DN |-> sum \div 20 - two_std]

\* VOL_RATIO in tenths
calc_volume_indicators(bars, t) ==
    IF t < 5 THEN NA
    ELSE Quot(5 * bars[t].volume,
              SumRange(Col(bars, "volume"), t - 4, t), 10)

\* max(axis=1) of the three ranges skips the NaN of the first row
TrueRange(bars) ==
    [k \in 1..Len(bars) |->
       IF k = 1 THEN bars[k].high - bars[k].low
       ELSE Max2(bars[k].high - bars[k].low,
                 Max2(Abs(bars[k].high - bars[k - 1].close),
                      Abs(bars[k].low - bars[k - 1].close)))]

calc_dmi_adx(bars, t) ==
    LET up == [k \in 1..Len(bars) |->
                 IF k = 1 THEN 0 ELSE bars[k].high - bars[k - 1].high]
        down == [k \in 1..Len(bars) |->
                   IF k = 1 THEN 0 ELSE bars[k - 1].low - bars[k].low]
        plus_dm == [k \in 1..Len(bars) |->
                      IF k > 1 /\ up[k] > down[k] /\ up[k] > 0
                      THEN 100 * up[k] ELSE 0]
        minus_dm == [k \in 1..Len(bars) |->
                       IF k > 1 /\ down[k] > up[k] /\ down[k] > 0
                       THEN 100 * down[k] ELSE 0]
        atr == EwmAll([k \in 1..Len(bars) |-> 100 * TrueRange(bars)[k]],
                      2, 15)
        pdm == EwmAll(plus_dm, 2, 15)
        mdm == EwmAll(minus_dm, 2, 15)
        plus_di == [k \in 1..Len(bars) |-> Quot(pdm[k], atr[k], 100)]
        minus_di == [k \in 1..Len(bars) |-> Quot(mdm[k], atr[k], 100)]
        dx == [k \in 1..Len(bars) |->
                 IF notna(plus_di[k]) /\ notna(minus_di[k])
                 THEN Quot(Abs(plus_di[k] - minus_di[k]),
                           plus_di[k] + minus_di[k], 100)
                 ELSE NA]
    IN  [ADX |-> Ewm(dx, 2, 15, t), PLUS_DI |-> plus_di[t],
         MINUS_DI |-> minus_di[t]]

calc_wr(bars, t) ==
    IF t < 14 THEN NA
    ELSE LET high_n == MaxRange(Col(bars, "high"), t - 13, t)
             low_n == MinRange(Col(bars, "low"), t - 13, t)
             q == Quot(high_n - bars[t].close, high_n - low_n, 100)
         IN  IF notna(q) THEN -q ELSE NA

\* tp, its mean and its mean deviation times 3 * 14
calc_cci(bars, t) ==
    IF t < 14 THEN NA
    ELSE LET tp3 == [k \in 1..Len(bars) |->
                       bars[k].high + bars[k].low + bars[k].close]
             sum == SumRange(tp3, t - 13, t)
             dev == [k \in 1..Len(bars) |-> Abs(14 * tp3[k] - sum)]
             md == SumRange(dev, t - 13, t)
         IN  Quot(14 * (14 * tp3[t] - sum) * 200, 3 * md, 1)

\* OBV and OBV_MA5; the first row has no direction
calc_obv(bars, t) ==
    LET signed == [k \in 1..Len(bars) |->
                     IF k = 1 THEN 0
                     ELSE IF bars[k].close > bars[k - 1].close
                     THEN bars[k].volume
                     ELSE IF bars[k].close < bars[k - 1].close
                     THEN -bars[k].volume
                     ELSE 0]
        OBV == [k \in 1..Len(bars) |->
                  IF k = 1 THEN NA ELSE SumRange(signed, 2, k)]
    IN  [OBV |-> OBV[t],
         OBV_MA5 |-> IF t < 6 THEN NA ELSE SumRange(OBV, t - 4, t) \div 5]

\* ATR_PCT in tenths of a percent
calc_atr(bars, t) ==
    Quot(Ewm(TrueRange(bars), 2, 15, t), bars[t].close, 1000)

\* Row t of calc_all_indicators(df)
IndicatorRow(bars, t) ==
    [close |-> bars[t].close,
     MA5 |-> calc_ma(bars, t, 5), MA10 |-> calc_ma(bars, t, 10),
     MA20 |-> calc_ma(bars, t, 20), MA60 |-> calc_ma(bars, t, 60),
     RSI |-> calc_rsi(bars, t),
     VOL_RATIO |-> calc_volume_indicators(bars, t),
     WR |-> calc_wr(bars, t), CCI |-> calc_cci(bars, t),
     ATR_PCT |-> calc_atr(bars, t)]
    @@ calc_macd(bars, t) @@ calc_kdj(bars, t) @@ calc_boll(bars, t)
    @@ calc_dmi_adx(bars, t) @@ calc_obv(bars, t)

\* The frame score_technical reads: its length and its last two rows.
calc_all_indicators(bars) ==
    [len |-> Len(bars),
     latest |-> IndicatorRow(bars, Len(bars)),
     prev |-> IF Len(bars) > 1 THEN IndicatorRow(bars, Len(bars) - 1)
              ELSE IndicatorRow(bars, 1)]

\* Constant bars: close = high = low = c, volume v, n rows.
FlatBars(c, v, n) ==
    [t \in 1..n |-> [close |-> c, high |-> c, low |-> c, volume |-> v]]

\* Constant bars that end with one wide bar closing 5% up on 3 times the
\* volume.
StepBars(c, v, n) ==
    [t \in 1..n |->
       IF t < n THEN [close |-> c, high |-> c, low |-> c, volume |-> v]
       ELSE [close |-> c + c \div 20, high |-> c + c \div 10,
             low |-> c - c \div 50, volume |-> 3 * v]]

\* The downloaded bars score_technical is called on.
TechBars ==
    {FlatBars(c, v, n) : c \in {500, 1000, 1037}, v \in {1, 5000},
                         n \in {MIN_ROWS - 1, MIN_ROWS, MIN_ROWS + 1}}
    \cup {StepBars(c, 5000, n) : c \in {500, 1000}, n \in {MIN_ROWS, MIN_ROWS + 1}}

\* RSI values on both sides of every threshold of the RSI rule.
RsiValues == {NA, 0, 29, 30, 31, 39, 40, 41, 50, 59, 60, 61, 69, 70, 71, 100}

\* The frame df with another RSI on its latest row.
WithRSI(df, rsi) == [df EXCEPT !.latest.RSI = rsi]

\* What score_technical is called on: frames computed from bars, the
\* frames of the scenarios at every length, and frames that differ in the
\* latest RSI only.
TechnicalCalls ==
    {[bars |-> bars, df |-> calc_all_indicators(bars)] : bars \in TechBars}
    \cup {[bars |-> <<>>, df |-> df] : df \in Histories}
    \cup {[bars |-> <<>>, df |-> WithRSI(HistoryOf(kind, MIN_ROWS, TRUE), rsi)] :
            kind \in Kinds, rsi \in RsiValues}

CallTechnical ==
    /\ pc = "start"
    /\ \E call \in TechnicalCalls :
         last' = [fn |-> "score_technical", in |-> call,
                  out |-> Returns(score_technical(call.df))]
    /\ pc' = "called"
    /\ UNCHANGED <<args, files, i, results, log, boards_cache>>

\* Bars of constant close = high = low and constant volume.
IsFlat(bars) ==
    /\ bars # <<>>
    /\ \A t \in 1..Len(bars) :
         /\ bars[t].close = bars[1].close /\ bars[t].high = bars[1].close
         /\ bars[t].low = bars[1].close /\ bars[t].volume = bars[1].volume

\* C14: for a flat 60-row history the technical score is 0 and no rule of
\* score_technical fires (the Bollinger-touch rule and the low-volatility
\* rule included); K = D = J = 50.
C14_FlatScoresZero ==
    (/\ Called("score_technical")
     /\ IsFlat(last.in.bars) /\ Len(last.in.bars) = 60)
    => /\ last.out.v = Neutral
       /\ last.in.df.latest.K = 50
       /\ last.in.df.latest.D = 50
       /\ last.in.df.latest.J = 50

\* Headlines for the keyword path: no keyword, one keyword, two keywords of
\* one list, keywords of two lists.
KeywordTitles ==
    { {}, {"bid_won"}, {"bid_won", "strategic_pact"}, {"lawsuit"},
      {"cooperation"}, {"share_sale"}, {"bid_won", "lawsuit"} }

KeywordItems ==
    { NewsRow(t, 1, w) : t \in KeywordTitles, w \in {10, 8, 6, 4, 2} }

\* what fetch_news can return: the named sets, and one or two headlines
NewsInputs ==
    { NewsSets[n] : n \in DOMAIN NewsSets }
    \cup { <<a>> : a \in KeywordItems }
    \cup { <<a, b>> : a \in KeywordItems, b \in KeywordItems }

CallNews ==
    /\ pc = "start"
    /\ \E news_items \in NewsInputs, g \in DOMAIN Geminis :
         last' = [fn |-> "score_news",
                  in |-> [news_items |-> news_items, gemini |-> Geminis[g]],
                  out |-> [raised |-> FALSE,
                           v |-> score_news(news_items, Geminis[g]),
                           consulted |->
                             score_news_consults(news_items, Geminis[g])]]
    /\ pc' = "called"
    /\ UNCHANGED <<args, files, i, results, log, boards_cache>>

GeminiSignals == {"gemini_positive", "gemini_negative", "gemini_neutral"}

DictSignals == {"dict_positive", "dict_negative", "dict_neutral"}

\* C15: without news items score_news returns (0, []) and asks no provider;
\* with news items it returns the provider's score (clamped to [-15, 15],
\* 0 for a reply without a score line) when the provider is configured and
\* answers, and the keyword heuristic's result exactly when the provider is
\* not configured or gives no score.
C15_NewsPaths ==
    Called("score_news") =>
        LET news_items == last.in.news_items
            gemini == last.in.gemini
            out == last.out.v
        IN  IF news_items = <<>>
            THEN out = Neutral /\ ~last.out.consulted
            ELSE IF gemini.key /\ gemini.ok
            THEN /\ out.score = IF gemini.score = NA THEN 0
                                ELSE Max2(-15, Min2(15, gemini.score))
                 /\ HasSignal(out.signals, GeminiSignals)
                 /\ ~HasSignal(out.signals, DictSignals)
            ELSE /\ out = NewsKeyword(news_items)
                 /\ HasSignal(out.signals, DictSignals)
                 /\ ~HasSignal(out.signals, GeminiSignals)

\* The provider answers 20 about two positive headlines: news score 15.
C15_Witness ==
    /\ Called("score_news")
    /\ last.in.gemini.key /\ last.in.gemini.ok /\ last.in.gemini.score = 20
    /\ Len(last.in.news_items) = 2
    /\ last.out.consulted
    /\ last.out.v.score = 15

\* The cells read_csv can deliver for a flag column.
FlagCells ==
    {Cell(0, "int64"), Cell(1, "int64"), Cell(0, "float64"),
     Cell(1, "float64"), Cell(NA, "float64"), Cell(NA, "none")}

\* The latest rows score_risk is called on: ATR% and volume ratio in tenths.
RiskRows ==
    [isST : FlagCells, tradestatus : FlagCells,
     ATR_PCT : {NA, 0, 50, 51, 80}, VOL_RATIO : {NA, 0, 2, 3, 10}]

CallRisk ==
    /\ pc = "start"
    /\ \E latest \in RiskRows :
         last' = [fn |-> "score_risk", in |-> [latest |-> latest],
                  out |-> Returns(score_risk(latest))]
    /\ pc' = "called"
    /\ UNCHANGED <<args, files, i, results, log, boards_cache>>

\* The penalty conditions of the specification on a row: special treatment
\* (flag 1), halted (status 0), ATR% > 5.0, volume ratio < 0.3.
Penalties(latest) ==
    (IF latest.isST.v = 1 THEN 10 ELSE 0)
    + (IF latest.tradestatus.v = 0 THEN 5 ELSE 0)
    + (IF latest.ATR_PCT # NA /\ latest.ATR_PCT > 50 THEN 3 ELSE 0)
    + (IF latest.VOL_RATIO # NA /\ latest.VOL_RATIO < 3 THEN 2 ELSE 0)

\* C16: the risk score is max(0, 10 - P), P the sum of the penalties whose
\* condition holds (special treatment 10, halted 5, ATR% > 5.0 3, volume
\* ratio < 0.3 2): a special-treatment instrument has risk 0, an instrument
\* without penalty has risk 10, and a row on which one more condition holds
\* never has a higher score.
C16_RiskFloor ==
    Called("score_risk") =>
        LET latest == last.in.latest
            score == last.out.v.score
        IN  /\ score = Max2(0, 10 - Penalties(latest))
            /\ latest.isST.v = 1 => score = 0
            /\ Penalties(latest) = 0 => score = 10
            /\ \A other \in RiskRows :
                   Penalties(other) >= Penalties(latest)
                       => score_risk(other).score <= score

\* C17: a scorer called with a history shorter than it needs returns
\* (0, []) and does not raise: score_technical below 60 rows,
\* score_momentum below 20 rows, score_flow on the proxy path (fewer than 3
\* flow records) below 20 rows.
C17_ShortHistoryNeutral ==
    /\ (Called("score_technical") /\ last.in.df.len < 60)
           => last.out = Returns(Neutral)
    /\ (Called("score_momentum") /\ last.in.df.len < 20)
           => last.out = Returns(Neutral)
    /\ (Called("score_flow") /\ last.in.df.len < 20
            /\ Supplied(last.in.flow_data) < 3)
           => last.out = Returns(Neutral)

\* The proxy path on 19 rows of a file without pctChg column, the column
\* whose absence makes the path raise on a longer history.
C17_Witness ==
    /\ Called("score_flow")
    /\ last.in.df.len = 19 /\ ~last.in.df.hasPct
    /\ Supplied(last.in.flow_data) = 2
    /\ last.out = Returns(Neutral)

\* The points of the RSI rule as the specification tiers them.
C18_RsiPoints(rsi) ==
    IF rsi < 30 THEN 5
    ELSE IF rsi < 40 THEN 2
    ELSE IF rsi > 70 THEN -5
    ELSE IF rsi > 60 THEN -2
    ELSE 0

\* C18: all else fixed, the technical score does not increase with the
\* latest RSI: for the frame of the call with RSI a and the same frame with
\* any available RSI b >= a, the score at a is at least the score at b, and
\* the RSI rule gives at least as many points at a as at b.
C18_RsiMonotone ==
    (/\ Called("score_technical")
     /\ last.in.df.len >= 60
     /\ last.in.df.latest.RSI # NA)
    => \A b \in RsiValues \ {NA} :
           b >= last.in.df.latest.RSI
           => /\ last.out.v.score
                   >= score_technical(WithRSI(last.in.df, b)).score
              /\ TechRSI(last.in.df.latest).pts >= TechRSI([RSI |-> b]).pts
              /\ TechRSI(last.in.df.latest).pts
                   = C18_RsiPoints(last.in.df.latest.RSI)

\* RSI 29 on the surge frame: the oversold tier fired and the score is
\* above the one the frame has with RSI 71.
C18_Witness ==
    /\ Called("score_technical")
    /\ last.in.df.len = 60
    /\ last.in.df.latest.RSI = 29
    /\ HasSignal(last.out.v.signals, {"rsi_oversold"})
    /\ last.out.v.score > score_technical(WithRSI(last.in.df, 71)).score

\* The ratios score_valuation is called on, in tenths: unavailable,
\* negative, zero and both sides of every tier boundary.
PeValues == {NA, -5, 0, 1, 120, 150, 151, 250, 251, 500, 501, 600}

PbValues == {NA, -5, 0, 1, 10, 11, 20, 21, 50, 51}

PsValues == {NA, -5, 0, 1, 20, 21, 50, 51, 100, 101}

ValuationRows == [peTTM : PeValues, pbMRQ : PbValues, psTTM : PsValues]

CallValuation ==
    /\ pc = "start"
    /\ \E latest \in ValuationRows :
         last' = [fn |-> "score_valuation", in |-> [latest |-> latest],
                  out |-> Returns(score_valuation(latest))]
    /\ pc' = "called"
    /\ UNCHANGED <<args, files, i, results, log, boards_cache>>

\* C19: with P/B and P/S fixed, the valuation score does not increase with
\* a positive P/E: the score of the call with P/E a > 0 is at least the
\* score of the same row with any P/E b >= a.
C19_PeMonotone ==
    (Called("score_valuation") /\ last.in.latest.peTTM # NA
                               /\ last.in.latest.peTTM > 0)
    => \A b \in PeValues \ {NA} :
           b >= last.in.latest.peTTM
           => last.out.v.score
                >= score_valuation([last.in.latest EXCEPT !.peTTM = b]).score

\* P/E 12 with P/B 1.1 and P/S 2.1: 10 + 4 + 3, above the -3 + 4 + 3 of
\* P/E 50 on the same row.
C19_Witness ==
    /\ Called("score_valuation")
    /\ last.in.latest = [peTTM |-> 120, pbMRQ |-> 11, psTTM |-> 21]
    /\ last.out.v.score = 17
    /\ score_valuation([last.in.latest EXCEPT !.peTTM = 500]).score = 4

\* The three tier lookups of the specification, ratios in tenths.
C20_PE(pe) ==
    IF pe = NA \/ pe = 0 THEN 0
    ELSE IF pe < 0 THEN -10
    ELSE IF pe <= 150 THEN 10
    ELSE IF pe <= 250 THEN 5
    ELSE IF pe <= 500 THEN -3
    ELSE -10

C20_PB(pb) ==
    IF pb = NA \/ pb <= 0 THEN 0
    ELSE IF pb <= 10 THEN 8
    ELSE IF pb <= 20 THEN 4
    ELSE IF pb <= 50 THEN -2
    ELSE -8

C20_PS(ps) ==
    IF ps = NA \/ ps <= 0 THEN 0
    ELSE IF ps <= 20 THEN 7
    ELSE IF ps <= 50 THEN 3
    ELSE IF ps > 100 THEN -7
    ELSE 0

PeSignals == {"pe_low", "pe_fair", "pe_high", "pe_very_high", "pe_negative"}

PbSignals == {"pb_below_book", "pb_low", "pb_high", "pb_very_high"}

PsSignals == {"ps_low", "ps_fair", "ps_very_high"}

\* C20: score_valuation is the sum of the P/E, P/B and P/S tier lookups,
\* and a ratio has a signal exactly when its lookup is not 0: an
\* unavailable ratio, P/E 0, a non-positive P/B or P/S and a P/S in (5, 10]
\* give 0 and no signal.
C20_TierSum ==
    Called("score_valuation") =>
        LET latest == last.in.latest
            out == last.out.v
        IN  /\ out.score = C20_PE(latest.peTTM) + C20_PB(latest.pbMRQ)
                           + C20_PS(latest.psTTM)
            /\ HasSignal(out.signals, PeSignals) <=> C20_PE(latest.peTTM) # 0
            /\ HasSignal(out.signals, PbSignals) <=> C20_PB(latest.pbMRQ) # 0
            /\ HasSignal(out.signals, PsSignals) <=> C20_PS(latest.psTTM) # 0
            /\ Len(out.signals) <= 3

\* P/E 0, P/B 0.1 and P/S 5.1: only the P/B tier contributes.
C20_Witness ==
    /\ Called("score_valuation")
    /\ last.in.latest = [peTTM |-> 0, pbMRQ |-> 1, psTTM |-> 51]
    /\ last.out.v = Scored(8, <<"pb_below_book">>)

(***************************************************************************)
(* C21: the keyword fallback of score_news.                                *)
(***************************************************************************)
\* the contribution of one item in tenths, each list counted at most once
C21_Contribution(item) ==
    (IF item.title \cap {"bid_won", "strategic_pact"} # {} THEN 8 * item.weight ELSE 0)
    - (IF item.title \cap {"loss_forecast", "lawsuit"} # {} THEN 8 * item.weight ELSE 0)
    + (IF item.title \cap {"cooperation", "limit_up"} # {} THEN 3 * item.weight ELSE 0)
    - (IF item.title \cap {"share_sale", "loss"} # {} THEN 3 * item.weight ELSE 0)

RECURSIVE C21_Sum(_)
C21_Sum(news_items) ==
    IF news_items = <<>> THEN 0
    ELSE C21_Contribution(Head(news_items)) + C21_Sum(Tail(news_items))

Fallback ==
    /\ Called("score_news")
    /\ last.in.news_items # <<>>
    /\ ~(last.in.gemini.key /\ last.in.gemini.ok)

\* C21: in the keyword fallback every item contributes at most once per
\* keyword list (+8w, -8w, +3w, -3w, w its recency weight), and the score is
\* the sum of the contributions, clamped to [-15, 15] and truncated toward
\* zero.
C21_KeywordSum ==
    Fallback =>
        last.out.v.score
            = TruncTenths(Max2(-150, Min2(150, C21_Sum(last.in.news_items))))

(***************************************************************************)
(* C22: the streaks of Path A.                                             *)
(***************************************************************************)
\* The number of latest consecutive records whose net main inflow has the
\* sign sgn (1 or -1): the k for which the last k records have the sign and
\* the record before them, if there is one, has not.
C22_Streak(rows, sgn) ==
    CHOOSE k \in 0..Len(rows) :
        /\ \A j \in (Len(rows) - k + 1)..Len(rows) : sgn * rows[j].main_net > 0
        /\ k < Len(rows) => sgn * rows[Len(rows) - k].main_net <= 0

OnPathA ==
    /\ Called("score_flow")
    /\ last.in.df.len >= 20
    /\ Supplied(last.in.flow_data) >= 3

\* C22: on Path A an inflow streak (latest consecutive records with net main
\* inflow > 0) of 3 or more adds +4 and one of exactly 2 adds +2, an outflow
\* streak (latest consecutive records < 0) of 3 or more subtracts 4 and one
\* of 2 nothing, and the inflow bonus and the outflow penalty never fire
\* together.
C22_Streaks ==
    OnPathA =>
        LET rows == last.in.flow_data.rows
            sigs == last.out.v.signals
            in == C22_Streak(rows, 1)
            out == C22_Streak(rows, -1)
            pts == (IF in >= 3 THEN 4 ELSE IF in = 2 THEN 2 ELSE 0)
                   - (IF out >= 3 THEN 4 ELSE 0)
        IN  /\ HasSignal(sigs, {"inflow_streak_3"}) <=> in >= 3
            /\ HasSignal(sigs, {"inflow_streak_2"}) <=> in = 2
            /\ HasSignal(sigs, {"outflow_streak_3"}) <=> out >= 3
            /\ ~(HasSignal(sigs, {"inflow_streak_3", "inflow_streak_2"})
                 /\ HasSignal(sigs, {"outflow_streak_3"}))
            /\ last.out.v.score
                 = Max2(-15, Min2(15, FlowTotal(rows).pts + pts
                                      + FlowShare(rows).pts))

\* Three inflow days after an outflow day (+4), and an outflow streak of
\* exactly two days that earns nothing.
C22_Witness ==
    /\ OnPathA
    /\ Len(last.in.flow_data.rows) = 4
    /\ last.in.flow_data.rows[1].main_net < 0
    /\ C22_Streak(last.in.flow_data.rows, 1) = 3
    /\ HasSignal(last.out.v.signals, {"inflow_streak_3"})

(***************************************************************************)
(* C23: the consecutive-decline count of score_momentum.                   *)
(***************************************************************************)
\* The number of latest bars with a negative percent change: the last k
\* changes are negative and the one before them, if there is one, is not
\* (zero, positive or not a number).
C23_Declines(pcts) ==
    CHOOSE k \in 0..Len(pcts) :
        /\ \A j \in (Len(pcts) - k + 1)..Len(pcts) : pcts[j] # NA /\ pcts[j] < 0
        /\ k < Len(pcts) =>
             (pcts[Len(pcts) - k] = NA \/ pcts[Len(pcts) - k] >= 0)

\* C23: score_momentum counts the latest bars with a negative percent change,
\* backward from the latest bar up to the first bar whose change is not
\* negative; a count of 5 or more adds +3, a count of 3 or 4 adds +1, and
\* never both.
C23_DeclineCount ==
    (Called("score_momentum") /\ last.in.df.len >= 20) =>
        LET df == last.in.df
            sigs == last.out.v.signals
            n == C23_Declines(PctChanges(df))
            pts == IF n >= 5 THEN 3 ELSE IF n >= 3 THEN 1 ELSE 0
        IN  /\ HasSignal(sigs, {"down_streak_5"}) <=> n >= 5
            /\ HasSignal(sigs, {"down_streak_3"}) <=> n \in {3, 4}
            /\ last.out.v.score
                 = Max2(-15, Min2(15, MomRet5(df).pts + MomRet20(df).pts
                                      + pts + MomPosition(df).pts))

\* Four falling days after a rising one: +1, not +3.
C23_Witness ==
    /\ Called("score_momentum")
    /\ last.in.df.len >= 20
    /\ C23_Declines(PctChanges(last.in.df)) = 4
    /\ HasSignal(last.out.v.signals, {"down_streak_3"})
    /\ ~HasSignal(last.out.v.signals, {"down_streak_5"})

(***************************************************************************)
(* C24: score_fundamental reads the most recent records.                   *)
(***************************************************************************)
\* Finance files of two quarters: a profit record per quarter, no growth
\* record or one per quarter, the older quarter first or last in the file.
\* A quarter's statement dates are its own, so the dates of one type differ.
ProfitCells == { <<NA, NA>>, <<-5, 5>>, <<12, 35>>, <<20, 55>>, <<NA, 35>> }

GrowthCells == { <<NA, NA>>, <<-15, -25>>, <<15, 15>>, <<35, 40>> }

QuarterFiles ==
    LET profit(d, c) == FinRow("profit", d, c[1], c[2], NA, NA)
        growth(d, c) == FinRow("growth", d, NA, NA, c[1], c[2])
        file(rows) == [exists |-> TRUE, cols |-> FinCols, rows |-> rows]
    IN  { file(<<profit(3, p3), growth(3, g3), profit(4, p4), growth(4, g4)>>) :
            p3 \in ProfitCells, p4 \in ProfitCells,
            g3 \in GrowthCells, g4 \in GrowthCells }
        \cup { file(<<profit(4, p4), growth(4, g4), profit(3, p3), growth(3, g3)>>) :
                 p3 \in ProfitCells, p4 \in ProfitCells,
                 g3 \in GrowthCells, g4 \in GrowthCells }
        \cup { file(<<profit(3, p3), profit(4, p4)>>) :
                 p3 \in ProfitCells, p4 \in ProfitCells }
        \cup { [exists |-> TRUE, cols |-> FinCols, rows |-> <<>>] }

FinanceInputs == { Finances[f] : f \in DOMAIN Finances } \cup QuarterFiles

CallFundamental ==
    /\ pc = "start"
    /\ \E fin \in FinanceInputs :
         last' = [fn |-> "score_fundamental", in |-> [fin |-> fin],
                  out |-> Returns(score_fundamental(fin))]
    /\ pc' = "called"
    /\ UNCHANGED <<args, files, i, results, log, boards_cache>>

\* the records of a type whose statement date no record of the type exceeds
C24_Latest(rows, type) ==
    { k \in 1..Len(rows) :
        /\ rows[k].data_type = type
        /\ \A j \in 1..Len(rows) :
             rows[j].data_type = type => rows[j].statDate <= rows[k].statDate }

\* the file without the records that are not the most recent of their type
C24_Reduced(fin) ==
    LET keep == C24_Latest(fin.rows, "profit") \cup C24_Latest(fin.rows, "growth")
        F[k \in 0..Len(fin.rows)] ==
            IF k = 0 THEN <<>>
            ELSE IF k \in keep THEN Append(F[k - 1], fin.rows[k])
            ELSE F[k - 1]
    IN  [fin EXCEPT !.rows = F[Len(fin.rows)]]

\* TRUE iff every most recent record of the type has no value in the column
C24_Lacks(fin, type, col) ==
    \/ col \notin fin.cols
    \/ \A k \in C24_Latest(fin.rows, type) : fin.rows[k][col] = NA

\* C24: score_fundamental returns (0, []) for an instrument without
\* fundamental data; otherwise its result is that of the file reduced to the
\* most recent record of each type (greatest statement date), and a rule
\* whose field that record lacks is skipped, whatever older records hold.
C24_MostRecentOnly ==
    Called("score_fundamental") =>
        LET fin == last.in.fin
            out == last.out.v
        IN  IF ~fin.exists \/ fin.rows = <<>>
            THEN out = Neutral
            ELSE /\ out = score_fundamental(C24_Reduced(fin))
                 /\ C24_Lacks(fin, "profit", "roeAvg") =>
                      ~HasSignal(out.signals,
                                 {"roe_excellent", "roe_good", "roe_negative"})
                 /\ C24_Lacks(fin, "profit", "gpMargin") =>
                      ~HasSignal(out.signals,
                                 {"margin_high", "margin_good", "margin_low"})
                 /\ C24_Lacks(fin, "growth", "YOYEquity") =>
                      ~HasSignal(out.signals,
                                 {"rev_high_growth", "rev_growth", "rev_decline"})
                 /\ C24_Lacks(fin, "growth", "YOYNI") =>
                      ~HasSignal(out.signals,
                                 {"ni_high_growth", "ni_growth", "ni_decline"})

\* The latest profit record has no ROE, the older one, first in the file,
\* an excellent one: the ROE rule is skipped while the margin rule fires.
C24_Witness ==
    /\ Called("score_fundamental")
    /\ Len(last.in.fin.rows) = 4
    /\ last.in.fin.rows[1] = FinRow("profit", 3, 20, 55, NA, NA)
    /\ last.in.fin.rows[3] = FinRow("profit", 4, NA, 35, NA, NA)
    /\ HasSignal(last.out.v.signals, {"margin_good"})
    /\ ~HasSignal(last.out.v.signals, {"roe_excellent"})

(***************************************************************************)
(* C25: the frame of enrich_with_intel.                                    *)
(***************************************************************************)
C25_Tier(total) ==
    IF total >= 65 THEN "strong_buy"
    ELSE IF total >= 30 THEN "buy"
    ELSE IF total > -15 THEN "hold"
    ELSE IF total > -45 THEN "sell"
    ELSE "strong_sell"

\* the result of a code in a result list
ResultOf(rs, code) == rs[CHOOSE k \in 1..Len(rs) : rs[k].code = code]

C26_Points(sig) ==
    CASE sig = "sector_hot" -> 6
      [] sig = "sector_active" -> 3
      [] sig = "sector_warm" -> 1
      [] sig = "sector_bleak" -> -6
      [] sig = "sector_cold" -> -3
      [] sig = "hot_concepts_3" -> 4
      [] sig = "hot_concepts_2" -> 2

RECURSIVE C26_Sum(_)
C26_Sum(signals) ==
    IF signals = <<>> THEN 0
    ELSE C26_Points(Head(signals)) + C26_Sum(Tail(signals))

\* C26: every heat score is one of -6, -3, 0, 1, 3, 5, 6, 7, 8, 10: the
\* hot-tag bonus fires only with a positive max-heat tier of +3 or +6, a
\* negative heat score carries no bonus, and the score is the plain sum of
\* the points of its rules, which the clamp to [-10, 10] leaves as it is.
C26_HeatValues ==
    \A k \in ResultIdx :
        LET r == results[k]
            bonus == HasSignal(r.heat_signals,
                               {"hot_concepts_3", "hot_concepts_2"})
        IN  /\ r.heat_score \in {-6, -3, 0, 1, 3, 5, 6, 7, 8, 10}
            /\ bonus => HasSignal(r.heat_signals,
                                  {"sector_hot", "sector_active"})
            /\ r.heat_score < 0 => ~bonus
            /\ HeatCalls = 1 => r.heat_score = C26_Sum(r.heat_signals)

\* Two hot tags under an active, not hot, sector: 3 + 2.
C26_Witness ==
    /\ AfterHeat
    /\ \E k \in ResultIdx :
         /\ results[k].heat_score = 5
         /\ results[k].heat_signals = <<"sector_active", "hot_concepts_2">>

(***************************************************************************)
(* C27: the penalties of Path B.                                           *)
(***************************************************************************)
OnPathB ==
    /\ Called("score_flow")
    /\ ~last.out.raised
    /\ last.in.df.len >= 20
    /\ Supplied(last.in.flow_data) < 3
    /\ VolSum20(last.in.df) > 0

C27_Points(sig) ==
    CASE sig = "vol_up_days_3" -> 5
      [] sig = "vol_up_days_2" -> 3
      [] sig = "quiet_stabilize" -> 3
      [] sig = "turnover_accel" -> 4
      [] sig = "turnover_warm" -> 2
      [] sig = "blow_off_top" -> -5
      [] sig = "quiet_decline" -> -3

RECURSIVE C27_Sum(_)
C27_Sum(signals) ==
    IF signals = <<>> THEN 0
    ELSE C27_Points(Head(signals)) + C27_Sum(Tail(signals))

\* C27: on Path B the blow-off-top penalty (-5) and the quiet-decline
\* penalty (-3) never fire together, a blow-off day being a volume-up day;
\* the score lies in [-5, 12] and is the plain sum of the points of its
\* rules, which the clamp to [-15, 15] leaves as it is.
C27_PenaltiesExclusive ==
    OnPathB =>
        LET sigs == last.out.v.signals
        IN  /\ ~(HasSignal(sigs, {"blow_off_top"})
                 /\ HasSignal(sigs, {"quiet_decline"}))
            /\ HasSignal(sigs, {"blow_off_top"}) => VolUpDays(last.in.df) >= 1
            /\ last.out.v.score \in -5..12
            /\ last.out.v.score = C27_Sum(sigs)

\* Four falling days and then a surge on huge volume: the blow-off penalty
\* alone.
C27_Witness ==
    /\ OnPathB
    /\ CountDown(last.in.df, Recent5(last.in.df)) = 4
    /\ last.out.v.signals = <<"blow_off_top">>
    /\ last.out.v.score = -5

(***************************************************************************)
(* load_boards by itself: a process calls it MaxLoads times while the      *)
(* board files change under it.  log keeps, for every call, what the files *)
(* held, whether the call read them and the mapping it returned.           *)
(***************************************************************************)
MaxLoads == 4

\* What the board files hold at the time of a call: nothing, a row for one
\* instrument only, a row for every instrument, other rows for every one.
LoadTables ==
    { EmptyBoards,
      [c \in Codes |-> IF c = 1 THEN [industry |-> "bank", concept |-> {"A"}]
                       ELSE NoBoards],
      [c \in Codes |-> [industry |-> "bank", concept |-> {"A"}]],
      [c \in Codes |-> [industry |-> "steel", concept |-> {"B", "C"}]] }

\* TRUE iff the call goes past `if _boards_cache: return _boards_cache`
load_boards_reads(cache) == cache = EmptyBoards

InitBoards ==
    /\ args = [mode |-> "boards"]
    /\ files = <<>>
    /\ pc = "ready"
    /\ i = 0
    /\ results = <<>>
    /\ last = [in |-> NoInput, out |-> Pending]
    /\ log = <<>>
    /\ boards_cache = EmptyBoards

\* One call load_boards() on the files as they are at that time.
CallLoadBoards ==
    /\ pc = "ready" /\ i < MaxLoads
    /\ \E disk \in LoadTables :
         /\ log' = Append(log, [disk |-> disk,
                                read |-> load_boards_reads(boards_cache),
                                mapping |-> load_boards(boards_cache, disk)])
         /\ boards_cache' = load_boards(boards_cache, disk)
    /\ i' = i + 1
    /\ UNCHANGED <<args, files, pc, results, last>>

NextBoards == CallLoadBoards

SpecBoards == InitBoards /\ [][NextBoards]_vars

\* the calls before call j that produced a non-empty mapping
C28_Produced(j) == { m \in 1..(j - 1) : log[m].mapping # EmptyBoards }

\* C28: once a call of load_boards has produced a non-empty mapping, every
\* later call returns that mapping without reading the board files,
\* whatever they hold by then; as long as the mapping produced is empty,
\* every call reads the files and returns what they hold.
C28_Memoized ==
    \A j \in 1..Len(log) :
        IF C28_Produced(j) # {}
        THEN /\ ~log[j].read
             /\ \A m \in C28_Produced(j) : log[j].mapping = log[m].mapping
        ELSE /\ log[j].read
             /\ log[j].mapping = log[j].disk

\* Empty files at the first call, filled at the second, other rows at the
\* third: the third call returns the mapping of the second.
C28_Witness ==
    /\ Len(log) = 3
    /\ log[1].disk = EmptyBoards /\ log[1].read
    /\ log[2].disk # EmptyBoards /\ log[2].read
    /\ log[3].disk \notin {EmptyBoards, log[2].disk}
    /\ ~log[3].read
    /\ log[3].mapping = log[2].disk

(***************************************************************************)
(* download_data.save_daily.  The stored history of one instrument is      *)
(* files = [exists, fields, rows]: whether the CSV exists, whether its     *)
(* header has every column of DAILY_FIELDS, and its rows in file order.    *)
(* A bar is [date, v]: v stands for the prices of the bar and is the       *)
(* number of the call that saved it.  log lists the frames saved.          *)
(***************************************************************************)
MaxSaves == 3

Dates == 1..3

\* combined.drop_duplicates(subset=["date"], keep="last")
RECURSIVE DropDuplicatesLast(_)
DropDuplicatesLast(rows) ==
    IF rows = <<>> THEN <<>>
    ELSE IF \E k \in 2..Len(rows) : rows[k].date = Head(rows).date
    THEN DropDuplicatesLast(Tail(rows))
    ELSE <<Head(rows)>> \o DropDuplicatesLast(Tail(rows))

RECURSIVE InsertByDate(_, _)
InsertByDate(sorted, row) ==
    IF sorted = <<>> THEN <<row>>
    ELSE IF Head(sorted).date <= row.date
    THEN <<Head(sorted)>> \o InsertByDate(Tail(sorted), row)
    ELSE <<row>> \o sorted

\* combined.sort_values("date")
RECURSIVE SortByDate(_)
SortByDate(rows) ==
    IF rows = <<>> THEN <<>>
    ELSE InsertByDate(SortByDate(SubSeq(rows, 1, Len(rows) - 1)),
                      rows[Len(rows)])

\* The file save_daily(code, df) leaves: the merge when a file with the
\* expected columns exists, else df as it is.
save_daily(file, df) ==
    IF file.exists /\ file.fields
    THEN [exists |-> TRUE, fields |-> TRUE,
          rows |-> SortByDate(DropDuplicatesLast(file.rows \o df))]
    ELSE [exists |-> TRUE, fields |-> TRUE, rows |-> df]

\* The frames of call n: one to three bars of different dates, in the order
\* the data source returned them.
Frames(n) ==
    { <<[date |-> a, v |-> n]>> : a \in Dates }
    \cup { <<[date |-> p[1], v |-> n], [date |-> p[2], v |-> n]>> :
             p \in { q \in Dates \X Dates : q[1] # q[2] } }
    \cup { <<[date |-> p[1], v |-> n], [date |-> p[2], v |-> n],
             [date |-> p[3], v |-> n]>> :
             p \in { q \in Dates \X Dates \X Dates :
                       q[1] # q[2] /\ q[1] # q[3] /\ q[2] # q[3] } }

\* No file yet, or one written before the columns were extended.
InitDaily ==
    /\ args = [mode |-> "download"]
    /\ files \in { [exists |-> FALSE, fields |-> FALSE, rows |-> <<>>],
                   [exists |-> TRUE, fields |-> FALSE,
                    rows |-> <<[date |-> 1, v |-> 0]>>] }
    /\ pc = "ready"
    /\ i = 0
    /\ results = <<>>
    /\ last = [in |-> NoInput, out |-> Pending]
    /\ log = <<>>
    /\ boards_cache = EmptyBoards

\* One call save_daily(code, df).
SaveDaily ==
    /\ pc = "ready" /\ i < MaxSaves
    /\ \E df \in Frames(i + 1) :
         /\ files' = save_daily(files, df)
         /\ log' = Append(log, df)
    /\ i' = i + 1
    /\ UNCHANGED <<args, pc, results, last, boards_cache>>

NextDaily == SaveDaily

SpecDaily == InitDaily /\ [][NextDaily]_vars

\* the number of the last call that saved a bar of date d, 0 if none did
C29_LastSaved(d) ==
    LET calls == { n \in 1..Len(log) : \E k \in 1..Len(log[n]) : log[n][k].date = d }
    IN  IF calls = {} THEN 0 ELSE CHOOSE n \in calls : \A m \in calls : m <= n

\* C29: after any sequence of save_daily calls with frames of unique dates,
\* the stored history has no duplicate date and is ascending by date, and
\* for every date saved it holds the bar of the last call that saved the
\* date.
C29_StoredHistory ==
    (args.mode = "download" /\ i >= 1) =>
        /\ \A j, k \in 1..Len(files.rows) :
             j < k => files.rows[j].date < files.rows[k].date
        /\ \A d \in Dates :
             C29_LastSaved(d) > 0 =>
                 \E k \in 1..Len(files.rows) :
                     files.rows[k] = [date |-> d, v |-> C29_LastSaved(d)]

(***************************************************************************)
(* market_intel.gemini_analyze_candidates.  One invocation: i counts the   *)
(* requests sent, log lists the seconds slept, last records the outcome of *)
(* every request and the text of the reply, results is the value returned. *)
(* A Python value is [type, value]; a reply text is [open, close, body]:   *)
(* whether it starts and ends with a ``` fence, and what lies between.     *)
(***************************************************************************)
max_retries == 3

retry_delays == <<5, 15, 30>>

PyValue(type, value) == [type |-> type, value |-> value]

EmptyList == PyValue("list", <<>>)

Entry(code, news_score) == [code |-> code, news_score |-> news_score]

\* What the text between the fences is.
Bodies ==
    {"", "array_0", "array_1", "array_2", "object", "string", "number",
     "null", "garbage"}

Replies == [open : BOOLEAN, close : BOOLEAN, body : Bodies]

NoText == [open |-> FALSE, close |-> FALSE, body |-> "none"]

\* text.split("\n", 1)[-1], text.rsplit("```", 1)[0], text.strip(): the
\* fences go, the body stays.
StripFences(text) == text.body

\* `if not text`: the stripped reply is the empty string.
EmptyText(text) == ~text.open /\ ~text.close /\ text.body = ""

\* json.loads(text); "decode_error" stands for json.JSONDecodeError.
json_loads(body) ==
    CASE body = "array_0" -> EmptyList
      [] body = "array_1" -> PyValue("list", <<Entry(1, 8)>>)
      [] body = "array_2" -> PyValue("list", <<Entry(1, 8), Entry(2, -5)>>)
      [] body = "object"  -> PyValue("dict", <<Entry(1, 8)>>)
      [] body = "string"  -> PyValue("str", <<>>)
      [] body = "number"  -> PyValue("int", <<>>)
      [] body = "null"    -> PyValue("NoneType", <<>>)
      [] OTHER            -> PyValue("decode_error", <<>>)

\* len(results) raises TypeError for a value without a length.
HasLen(value) == value.type \in {"list", "dict", "str"}

\* Lines 338-355: what the call returns for the stripped reply text.
ParseReply(text) ==
    IF EmptyText(text) THEN EmptyList
    ELSE LET parsed == json_loads(StripFences(text))
         IN  IF parsed.type = "decode_error" THEN EmptyList
             ELSE IF ~HasLen(parsed) THEN EmptyList
             ELSE parsed

\* What a request can come to: a reply with a text, a reply whose text is
\* None, an exception whose message contains "429", any other exception.
Outcomes == {"reply", "no_text", "error_429", "error_other"}

\* `"429" in err_str and attempt < max_retries`
Retries(outcome, attempt) == outcome = "error_429" /\ attempt < max_retries

InitGemini ==
    /\ args \in [mode : {"gemini"}, key : BOOLEAN]
    /\ files = <<>>
    /\ pc = "ready"
    /\ i = 0
    /\ results = PyValue("pending", <<>>)
    /\ last = [text |-> NoText, outcomes |-> <<>>]
    /\ log = <<>>
    /\ boards_cache = EmptyBoards

\* Lines 270-272 and 275-317: without a key the call returns [] at once,
\* else it builds the prompt and enters the loop.
GeminiEnter ==
    /\ pc = "ready" /\ args.mode = "gemini"
    /\ IF args.key
       THEN pc' = "request" /\ UNCHANGED results
       ELSE pc' = "returned" /\ results' = EmptyList
    /\ UNCHANGED <<args, files, i, last, log, boards_cache>>

\* Lines 318-335: one pass of the loop body up to the sleep; a re-raised
\* exception is caught at 353 and ends the call with [].
GeminiRequest ==
    /\ pc = "request"
    /\ i' = i + 1
    /\ \E outcome \in Outcomes :
         \E text \in Replies :
           /\ last' = [text |-> IF outcome = "reply" THEN text ELSE NoText,
                       outcomes |-> Append(last.outcomes, outcome)]
           /\ IF outcome = "reply"
              THEN pc' = "parse" /\ UNCHANGED results
              ELSE IF Retries(outcome, i)
              THEN pc' = "sleep" /\ UNCHANGED results
              ELSE pc' = "returned" /\ results' = EmptyList
    /\ UNCHANGED <<args, files, log, boards_cache>>

\* Lines 332-334: time.sleep(retry_delays[attempt]), then the next pass.
GeminiSleep ==
    /\ pc = "sleep"
    /\ log' = Append(log, retry_delays[i])
    /\ pc' = "request"
    /\ UNCHANGED <<args, files, i, results, last, boards_cache>>

\* Lines 338-355: the reply is parsed and the call returns.
GeminiParse ==
    /\ pc = "parse"
    /\ results' = ParseReply(last.text)
    /\ pc' = "returned"
    /\ UNCHANGED <<args, files, i, last, log, boards_cache>>

NextGemini == GeminiEnter \/ GeminiRequest \/ GeminiSleep \/ GeminiParse

SpecGemini == InitGemini /\ [][NextGemini]_vars

\* Every step of the call (a request, a sleep, the parse) comes to an end.
FairGemini == SpecGemini /\ WF_vars(NextGemini)

\* the parts of C30 about requests, waits and errors
C30_Requests ==
    args.mode = "gemini" =>
        /\ i <= 4
        /\ Len(last.outcomes) = i
        /\ \A k \in 1..(i - 1) : last.outcomes[k] = "error_429"
        /\ Len(log) <= 3
        /\ log = SubSeq(<<5, 15, 30>>, 1, Len(log))
        /\ Len(log) \in {i - 1, i}
        /\ pc = "sleep" => Len(log) = i - 1 /\ last.outcomes[i] = "error_429"
        /\ pc \in {"ready", "request", "sleep", "parse", "returned"}
        /\ (pc = "returned" /\ i >= 1
              /\ last.outcomes[i] \in {"error_other", "no_text"})
               => results = EmptyList
        /\ (pc = "returned" /\ i = 4 /\ last.outcomes[i] = "error_429")
               => results = EmptyList
        /\ (last.outcomes # <<>> /\ last.outcomes[i] = "error_429" /\ i < 4)
               => pc \in {"sleep", "request"} \/ Len(log) = i

\* the call comes to an end
C30_Terminates == args.mode = "gemini" => <>(pc = "returned")

\* C30: the call sends at most 4 requests, retries only after an error whose
\* text contains "429", at most 3 times with waits of 5, 15 and 30 seconds;
\* any other error, or such an error on the 4th attempt, ends the call with
\* an empty list; and the value the call returns is a list.
C30_ReturnsList ==
    /\ C30_Requests
    /\ (args.mode = "gemini" /\ pc = "returned") => results.type = "list"

NextScorers ==
    \/ CallTechnical
    \/ CallValuation
    \/ CallFundamental
    \/ CallRisk
    \/ CallMomentum
    \/ CallFlow
    \/ CallNews

SpecScorers == InitScorers /\ [][NextScorers]_vars

=============================================================================
